---------------------------- MODULE Spec2Model ----------------------------
(***************************************************************************)
(* A model of athanor_boards: board collections, boards and posts kept in  *)
(* a relational store, and the operation handlers of the three            *)
(* managers in managers.py.                                                *)
(*                                                                         *)
(* Strings are tuples of one-character strings, so that lower(), str(),    *)
(* int() and concatenation are computed rather than assumed.  An optional  *)
(* value is <<>> (Python None) or <<v>>.                                    *)
(*                                                                         *)
(* A handler that reads the store, decides, and then writes is modelled    *)
(* in two steps (the reads up to the decision, then the write), so that    *)
(* requests of different sessions interleave between the two; handlers     *)
(* that write at once are one step.  The store's own unique constraints    *)
(* (models.py) are checked by the step that writes.                        *)
(***************************************************************************)
EXTENDS Integers, Sequences, FiniteSets, TLC

----------------------------------------------------------------------------
(* Bounds of the model *)

MaxPosts == 3
MaxCollections == 2
MaxBoards == 2
MaxInFlight == 2

----------------------------------------------------------------------------
(* Strings *)

None == <<>>
Some(v) == <<v>>
IsNone(o) == o = <<>>
Val(o) == o[1]

EmptyStr == <<>>

UpperLetters == {"A", "B", "C", "D", "E", "F", "G", "H", "I", "J", "K", "L", "M",
                 "N", "O", "P", "Q", "R", "S", "T", "U", "V", "W", "X", "Y", "Z"}
LowerLetters == {"a", "b", "c", "d", "e", "f", "g", "h", "i", "j", "k", "l", "m",
                 "n", "o", "p", "q", "r", "s", "t", "u", "v", "w", "x", "y", "z"}
Digits == <<"0", "1", "2", "3", "4", "5", "6", "7", "8", "9">>

\* str.lower() on one character.
LowerChar(c) ==
    CASE c = "A" -> "a" [] c = "B" -> "b" [] c = "C" -> "c" [] c = "D" -> "d"
      [] c = "E" -> "e" [] c = "F" -> "f" [] c = "G" -> "g" [] c = "H" -> "h"
      [] c = "I" -> "i" [] c = "J" -> "j" [] c = "K" -> "k" [] c = "L" -> "l"
      [] c = "M" -> "m" [] c = "N" -> "n" [] c = "O" -> "o" [] c = "P" -> "p"
      [] c = "Q" -> "q" [] c = "R" -> "r" [] c = "S" -> "s" [] c = "T" -> "t"
      [] c = "U" -> "u" [] c = "V" -> "v" [] c = "W" -> "w" [] c = "X" -> "x"
      [] c = "Y" -> "y" [] c = "Z" -> "z" [] OTHER -> c

\* str.lower(), and the comparison the __iexact lookups make.
Lower(s) == [i \in 1..Len(s) |-> LowerChar(s[i])]
IEq(s, t) == Lower(s) = Lower(t)

\* str.strip() of the blanks at both ends.
RECURSIVE LStrip(_)
LStrip(s) == IF s # <<>> /\ Head(s) = " " THEN LStrip(Tail(s)) ELSE s
RECURSIVE RStrip(_)
RStrip(s) == IF s # <<>> /\ s[Len(s)] = " " THEN RStrip(SubSeq(s, 1, Len(s) - 1)) ELSE s
Strip(s) == RStrip(LStrip(s))

IsDigit(c) == \E d \in 1..10 : Digits[d] = c
DigitVal(c) == (CHOOSE d \in 1..10 : Digits[d] = c) - 1

\* str(n) of an integer.
RECURSIVE NatStr(_)
NatStr(n) == IF n < 10 THEN <<Digits[n + 1]>> ELSE NatStr(n \div 10) \o <<Digits[(n % 10) + 1]>>
IntStr(n) == IF n < 0 THEN <<"-">> \o NatStr(0 - n) ELSE NatStr(n)

RECURSIVE DigitsVal(_, _)
DigitsVal(s, acc) == IF s = <<>> THEN acc ELSE DigitsVal(Tail(s), acc * 10 + DigitVal(Head(s)))
AllDigits(s) == s # <<>> /\ \A i \in 1..Len(s) : IsDigit(s[i])

\* int(s): blanks stripped, an optional sign, then digits; anything else is
\* a ValueError (ok = FALSE).
ParseInt(s) ==
    LET t == Strip(s)
        signed == t # <<>> /\ Head(t) \in {"-", "+"}
        body == IF signed THEN Tail(t) ELSE t
    IN  IF AllDigits(body)
        THEN [ok |-> TRUE,
              val |-> IF signed /\ Head(t) = "-" THEN 0 - DigitsVal(body, 0) ELSE DigitsVal(body, 0)]
        ELSE [ok |-> FALSE, val |-> 0]

\* The position of the first "." of s, or 0.
FirstDot(s) == IF \E i \in 1..Len(s) : s[i] = "."
               THEN CHOOSE i \in 1..Len(s) : s[i] = "." /\ \A j \in 1..(i - 1) : s[j] # "."
               ELSE 0

SeqMax(S) == CHOOSE x \in S : \A y \in S : y <= x

----------------------------------------------------------------------------
(* Identities and permissions *)

Accounts == {"dev", "ops", "adm", "amy", "bob"}
Characters == {"Bix"}

\* The connected sessions: the account and the active persona, if any, that
\* every Operation of the session carries (operation.user, operation.character).
Sessions == {[user |-> "dev", character |-> None],
             [user |-> "ops", character |-> None],
             [user |-> "adm", character |-> None],
             [user |-> "amy", character |-> None],
             [user |-> "bob", character |-> None],
             [user |-> "bob", character |-> Some("Bix")]}

\* operation.actor: the persona if there is one, else the account.
Actor(s) == IF IsNone(s.character) THEN s.user ELSE Val(s.character)

\* The permission each identity holds, as a rank in the permission hierarchy
\* (Player < Admin < Developer).
PermRank(a) == CASE a \in {"dev", "ops"} -> 3 [] a = "adm" -> 2 [] OTHER -> 1

\* One lock function evaluated for an accessing identity; an access type
\* with no lock stored ("unset") is denied.
LockFuncs == {"all", "perm_admin", "perm_developer", "false"}
LockPasses(f, a) ==
    CASE f = "all" -> TRUE
      [] f = "perm_admin" -> PermRank(a) >= 2
      [] f = "perm_developer" -> PermRank(a) >= 3
      [] OTHER -> FALSE

AccessTypes == {"read", "post", "admin"}

\* settings.BOARD_PERMISSIONS_ADMIN_OVERRIDE = "perm(Developer)"
BOARD_PERMISSIONS_ADMIN_OVERRIDE == "perm_developer"

\* DefaultBoardCollection.init_locks = "read:all();admin:perm(Admin)"
init_locks == [read |-> "all", post |-> "unset", admin |-> "perm_admin"]

\* OPTIONS_BOARD_COLLECTION_DEFAULT["default_locks"] =
\* "read:all();post:all();admin:perm(Admin)"
default_locks == [read |-> "all", post |-> "all", admin |-> "perm_admin"]

----------------------------------------------------------------------------
(* State *)

\* Each row carries the soft-delete flag (deleted) that the handlers read and
\* write (db_deleted, board.deleted, post.deleted); models.py lists the other
\* columns, the flag's declaration is not among them.
VARIABLES
    collections,   \* the BoardCollectionDB rows, by id
    boards,        \* the BoardDB rows, by id
    posts,         \* the Post rows, by id
    now,           \* the clock utcnow() reads; it moves on when a post is stored
    req,           \* req[s]: the request of session s that is between its two steps
    last,          \* the outcome of the operation that has just finished, until its
                   \* caller has taken it (NoOp then)
    sent           \* the new-post notifications delivered by system_send

vars == <<collections, boards, posts, now, req, last, sent>>

ColIds == 1..Len(collections)
BoardIds == 1..Len(boards)
PostIds == 1..Len(posts)

\* HTTP status codes the handlers set.
HTTP_200_OK == 200
HTTP_201_CREATED == 201
HTTP_400_BAD_REQUEST == 400
HTTP_401_UNAUTHORIZED == 401
HTTP_404_NOT_FOUND == 404

Idle == [pc |-> "idle", col |-> 0, board |-> 0, name |-> EmptyStr, abbr |-> EmptyStr, order |-> 0,
         number |-> 0, reply_number |-> 0, subject |-> EmptyStr, disguise |-> None,
         ic |-> FALSE, when |-> 0, ref |-> None]

NoOp == [op |-> "none",
         status |-> HTTP_200_OK, raised |-> "none", target |-> 0, arg |-> None,
         facts |-> {}, actor |-> "", rows |-> <<>>, per_page |-> 0, page |-> 0, pages |-> 0]

\* The outcome of a finished operation. status is operation.status (200
\* until a handler sets it); raised is the exception that left the handler:
\* "none", operation.ex ("OperationError") or one the handler does not
\* raise itself.  target is the row acted on (0: none resolved), arg the
\* text argument the request carried, facts what the handler found when it
\* looked (which capabilities the caller held, whether the row had
\* dependants, ...).  rows, page and pages are the payload of a listing,
\* per_page the page size it was cut with and actor the identity it was
\* made for.
Outcome(op, status, raised, target, arg, facts) ==
    [op |-> op, status |-> status, raised |-> raised,
     target |-> target, arg |-> arg, facts |-> facts,
     actor |-> "", rows |-> <<>>, per_page |-> 0, page |-> 0, pages |-> 0]

\* The outcome of a listing that returned rows.
Listing(op, status, target, actor, rows, page, pages) ==
    [Outcome(op, status, "none", target, None, {}) EXCEPT
        !.actor = actor, !.rows = rows, !.page = page, !.pages = pages]

InFlight == {s \in Sessions : req[s].pc # "idle"}
\* A request starts when the last outcome has been taken.  MayBegin: the
\* session has no request under way and may start a two-step one; MayRun: it
\* may run a one-step one; MayCommit: its request pc is due its second step.
MayBegin(s) == last = NoOp /\ req[s].pc = "idle" /\ Cardinality(InFlight) < MaxInFlight
MayRun(s) == last = NoOp /\ req[s].pc = "idle"
MayCommit(s, pc) == last = NoOp /\ req[s].pc = pc

----------------------------------------------------------------------------
(* Access control: boards.py *)

\* check_lockstring of the override lock against the accessing identity.
check_override(a) == LockPasses(BOARD_PERMISSIONS_ADMIN_OVERRIDE, a)

\* The entity's own lock for an access type.
LockCheck(locks, a, type) == LockPasses(locks[type], a)

\* DefaultBoardCollection.access_check_admin
CollectionAccessCheckAdmin(c, a) == check_override(a)

\* collection.access(a, type): the access_check_<type> hook or the lock.
CollectionAccessAdmin(c, a) ==
    CollectionAccessCheckAdmin(c, a) \/ LockCheck(collections[c].locks, a, "admin")

\* DefaultBoardCollection.access_check_read
CollectionAccessCheckRead(c, a) == check_override(a) \/ CollectionAccessAdmin(c, a)

CollectionAccess(c, a, type) ==
    CASE type = "admin" -> CollectionAccessAdmin(c, a)
      [] type = "read" -> CollectionAccessCheckRead(c, a) \/ LockCheck(collections[c].locks, a, "read")
      [] OTHER -> LockCheck(collections[c].locks, a, type)

\* A plausible slip: the owning collection's admin is not consulted.
BoardAccessCheckAdminNoCollection(b, a) == check_override(a)

\* DefaultBoard.access_check_admin
BoardAccessCheckAdmin(b, a) ==
    check_override(a) \/ CollectionAccess(boards[b].db_collection, a, "admin")

BoardAccessAdmin(b, a) ==
    BoardAccessCheckAdmin(b, a) \/ LockCheck(boards[b].locks, a, "admin")

\* DefaultBoard.access_check_read and access_check_post
BoardAccessCheckRead(b, a) == check_override(a) \/ BoardAccessAdmin(b, a)
BoardAccessCheckPost(b, a) == check_override(a) \/ BoardAccessAdmin(b, a)

\* board.access(a, type)
BoardAccess(b, a, type) ==
    CASE type = "admin" -> BoardAccessAdmin(b, a)
      [] type = "read" -> BoardAccessCheckRead(b, a) \/ LockCheck(boards[b].locks, a, "read")
      [] OTHER -> BoardAccessCheckPost(b, a) \/ LockCheck(boards[b].locks, a, "post")

----------------------------------------------------------------------------
(* Identifiers and lookups *)

\* DefaultBoard.board_label: the abbreviation followed by the order, read
\* from the board object in memory.
board_label(b) ==
    collections[boards[b].db_collection].db_abbreviation \o IntStr(boards[b].order_cached)

\* BoardDBManager.with_board_id: the same concatenation over the stored columns.
with_board_id(b) ==
    collections[boards[b].db_collection].db_abbreviation \o IntStr(boards[b].db_order)

\* Post.post_number
post_number(p) ==
    IF posts[p].reply_number = 0
    THEN IntStr(posts[p].number)
    ELSE IntStr(posts[p].number) \o <<".">> \o IntStr(posts[p].reply_number)

\* BoardDBManager.find_board: [status, board, page].  A "." splits off a page
\* number; the board is the first row, in the model's ordering (collection
\* descending, then order), whose board id is the text, neither the board nor
\* its collection being deleted.
find_board(input) ==
    LET dot == FirstDot(input)
        board_id == IF dot = 0 THEN input ELSE SubSeq(input, 1, dot - 1)
        page == IF dot = 0 THEN [ok |-> TRUE, val |-> -1]
                ELSE ParseInt(SubSeq(input, dot + 1, Len(input)))
        found == {b \in BoardIds : /\ with_board_id(b) = board_id
                                   /\ ~boards[b].deleted
                                   /\ ~collections[boards[b].db_collection].deleted}
        first == CHOOSE b \in found : \A o \in found :
                    \/ boards[b].db_collection > boards[o].db_collection
                    \/ /\ boards[b].db_collection = boards[o].db_collection
                       /\ boards[b].db_order < boards[o].db_order
                    \/ /\ boards[b].db_collection = boards[o].db_collection
                       /\ boards[b].db_order = boards[o].db_order
                       /\ b <= o
    IN  IF ~page.ok THEN [status |-> HTTP_400_BAD_REQUEST, board |-> 0, page |-> 0]
        ELSE IF found = {} THEN [status |-> HTTP_404_NOT_FOUND, board |-> 0, page |-> 0]
        ELSE [status |-> HTTP_200_OK, board |-> first, page |-> page.val]

\* CollectionDBManager.find_collection: [status, col].  A numeric text is an
\* id; any other is a name, then an abbreviation, compared ignoring case;
\* deleted rows are left out.
find_collection(input) ==
    LET collection_id == Strip(input)
        start == {c \in ColIds : ~collections[c].deleted}
        byId == {c \in start : AllDigits(collection_id) /\ c = DigitsVal(collection_id, 0)}
        byKey == {c \in start : IEq(collections[c].db_key, collection_id)}
        byAbbr == {c \in start : IEq(collections[c].db_abbreviation, collection_id)}
        Min(S) == CHOOSE x \in S : \A y \in S : x <= y
    IN  IF AllDigits(collection_id)
        THEN IF byId = {} THEN [status |-> HTTP_404_NOT_FOUND, col |-> 0]
             ELSE [status |-> HTTP_200_OK, col |-> Min(byId)]
        ELSE IF byKey # {} THEN [status |-> HTTP_200_OK, col |-> Min(byKey)]
        ELSE IF byAbbr # {} THEN [status |-> HTTP_200_OK, col |-> Min(byAbbr)]
        ELSE [status |-> HTTP_404_NOT_FOUND, col |-> 0]

\* PostManager.find_post: [status, post].  "N" or "N.R", both parts integers;
\* the post of the board with that number and reply number that is not deleted.
find_post(input, b) ==
    LET dot == FirstDot(input)
        n == IF dot = 0 THEN ParseInt(input) ELSE ParseInt(SubSeq(input, 1, dot - 1))
        r == IF dot = 0 THEN [ok |-> TRUE, val |-> 0]
             ELSE ParseInt(SubSeq(input, dot + 1, Len(input)))
        found == {p \in PostIds : /\ posts[p].board = b
                                  /\ posts[p].number = n.val
                                  /\ posts[p].reply_number = r.val
                                  /\ ~posts[p].deleted}
    IN  IF ~(n.ok /\ r.ok) THEN [status |-> HTTP_400_BAD_REQUEST, post |-> 0]
        ELSE IF found = {} THEN [status |-> HTTP_404_NOT_FOUND, post |-> 0]
        ELSE [status |-> HTTP_200_OK, post |-> CHOOSE p \in found : \A o \in found : p <= o]

----------------------------------------------------------------------------
(* Posts: models.py and PostManager *)

\* The .key (name) of an account or character.
KeyOf(a) ==
    CASE a = "dev" -> <<"d", "e", "v">>
      [] a = "ops" -> <<"o", "p", "s">>
      [] a = "adm" -> <<"a", "d", "m">>
      [] a = "amy" -> <<"a", "m", "y">>
      [] a = "bob" -> <<"b", "o", "b">>
      [] OTHER -> <<"B", "i", "x">>

\* The account a connected character belongs to (target.account).
AccountOf(ch) == "bob"

\* online_accounts() and online_characters()
OnlineAccounts == {"adm", "amy", "bob"}
OnlineCharacters == {"Bix"}

\* f"{x}" of an optional string.
Fmt(o) == IF IsNone(o) THEN <<"N", "o", "n", "e">> ELSE Val(o)

\* A slip in the rendering: the disguise board names the poster to everyone.
RenderAuthorUnmasked(row, user, character, known_admin) ==
    LET poster == IF IsNone(row.character) THEN row.user ELSE Val(row.character)
    IN  IF boards[row.board].disguise
        THEN Some(Fmt(row.disguise) \o <<" ", "(">> \o KeyOf(poster) \o <<")">>)
        ELSE Some(KeyOf(row.user))

\* Post.render_author on a post row: the text, or None when the row's
\* disguise is returned and there is none.  options.get("character") names
\* no declared option and yields None, so that branch is never taken.
render_author(row, user, character, known_admin) ==
    LET admin == IF IsNone(known_admin)
                 THEN \/ row.user = user
                      \/ (~IsNone(character) /\ row.character = character)
                      \/ BoardAccess(row.board, user, "admin")
                 ELSE Val(known_admin)
        poster == IF IsNone(row.character) THEN row.user ELSE Val(row.character)
    IN  IF boards[row.board].disguise
        THEN IF admin
             THEN Some(Fmt(row.disguise) \o <<" ", "(">> \o KeyOf(poster) \o <<")">>)
             ELSE row.disguise
        ELSE Some(KeyOf(row.user))

\* The author part of Post.serialize for a viewer: the keys added for the
\* author, the author's character and the board's administrators, the two
\* names among their values, and the rendered author.
serialize(row, user, character) ==
    LET enactor == IF IsNone(character) THEN user ELSE Val(character)
        admin == \/ row.user = user
                 \/ (~IsNone(character) /\ row.character = character)
                 \/ BoardAccess(row.board, enactor, "admin")
    IN  [fields |-> IF admin
                    THEN {"character_id", "character_name", "user_id", "user_name", "disguise"}
                    ELSE {},
         user_name |-> IF admin THEN Some(KeyOf(row.user)) ELSE None,
         character_name |-> IF admin /\ ~IsNone(row.character)
                            THEN Some(KeyOf(Val(row.character))) ELSE None,
         author |-> render_author(row, user, character, Some(admin))]

\* A slip in the loop: no target is skipped.
NotifyEveryone(b, t) == TRUE

\* The test of the notification loop: a target that passes neither the
\* board's read nor its admin check is skipped.
Eligible(b, t) == BoardAccess(b, t, "read") \/ BoardAccess(b, t, "admin")

\* The notification loop of op_create and op_reply run to its end: every
\* connected target that passes the test is sent the author as rendered for
\* it.
Fanout(row, pid, ic) ==
    LET targets == IF ic THEN OnlineCharacters ELSE OnlineAccounts
    IN  {[target |-> t, post |-> pid,
          author |-> IF t \in Characters
                     THEN render_author(row, AccountOf(t), Some(t), None)
                     ELSE render_author(row, t, None, None)] :
         t \in {x \in targets : Eligible(row.board, x)}}

\* The order in which the loop visits the connected targets.
ConnectionOrder == <<"adm", "amy", "bob", "Bix">>
Position(t) == CHOOSE i \in 1..Len(ConnectionOrder) : ConnectionOrder[i] = t

\* The loop as it runs when system_send raises for the targets in broken:
\* nothing catches the exception, so the loop ends at the first target it
\* sends to that is broken (stopped_at; None when it runs to its end), and
\* the targets after it are not visited.
Delivery(row, pid, ic, broken) ==
    LET all == Fanout(row, pid, ic)
        failing == {Position(n.target) : n \in {x \in all : x.target \in broken}}
        stop == IF failing = {} THEN 0
                ELSE CHOOSE i \in failing : \A j \in failing : i <= j
    IN  [stopped_at |-> IF stop = 0 THEN None ELSE Some(ConnectionOrder[stop]),
         sent |-> IF stop = 0 THEN all ELSE {n \in all : Position(n.target) < stop}]

\* A slip that would let duplicates in: the store accepts any row.
UniqueTogetherOff(b, n, r) == TRUE

\* Post.Meta.unique_together = (board, number, reply_number): whether the
\* store accepts a new row with these values.
PostUnique(b, n, r) ==
    ~\E p \in PostIds : posts[p].board = b /\ posts[p].number = n /\ posts[p].reply_number = r

\* A slip in the counter update: the counter is written back unchanged.
NextNumberStuck(n) == n

\* board.next_post_number += 1
AdvanceCounter(n) == n + 1

\* A slip in the reply numbering: the posts of the thread are counted, the
\* root among them.
NextReplyCountsRoot(b, n) ==
    Cardinality({q \in PostIds : posts[q].board = b /\ posts[q].number = n}) + 1

\* op_reply: max(reply_number) + 1 over the posts of the board with the
\* number, deleted or not; 1 when there is none.
NextReplyNumber(b, n) ==
    LET rs == {posts[p].reply_number : p \in {q \in PostIds : posts[q].board = b /\ posts[q].number = n}}
    IN  IF rs = {} THEN 1 ELSE SeqMax(rs) + 1

\* A slip in the marker: marking a post that is marked takes the marker off.
MarkReadToggles(read, user) == IF user \in read THEN read \ {user} ELSE read \cup {user}

\* post.read.add(user) on the many-to-many relation: a relation that is
\* there already is left alone.
MarkRead(read, user) == read \cup {user}

\* A slip in a handler: the write is made before the check that refuses it.
WriteFirst(before, written) == written

\* A handler checks the caller before it writes: raise operation.ex leaves
\* the handler, and the rows are what they were before the request.
DenyFirst(before, written) == before

\* The caller takes the outcome: execute() has returned and the command
\* shows the result.  The next request starts after that.
Return == /\ last # NoOp
          /\ last' = NoOp
          /\ UNCHANGED <<collections, boards, posts, now, req, sent>>

Finish(s, out) == /\ last' = out
                  /\ req' = [req EXCEPT ![s] = Idle]

\* The checks of op_create and op_reply that follow the lookups: the
\* status they fail with, or 200.
PostOptionStatus(b, s, disguise) ==
    IF boards[b].ic /\ IsNone(s.character) THEN HTTP_400_BAD_REQUEST
    ELSE IF boards[b].disguise /\ (IsNone(disguise) \/ Val(disguise) = EmptyStr) THEN HTTP_400_BAD_REQUEST
    ELSE HTTP_200_OK

\* PostManager.op_create up to the transaction: the lookups, the checks,
\* and the number read from the board.
PostCreateBegin(s, board_id, subject, body, disguise) ==
    LET fb == find_board(board_id)
        b == fb.board
        a == Actor(s)
        d == IF IsNone(disguise) \/ Val(disguise) = EmptyStr THEN disguise ELSE Some(Strip(Val(disguise)))
        Fail(st) == /\ Finish(s, Outcome("post_create", st, "OperationError", b, None, {}))
                    /\ UNCHANGED <<collections, boards, posts, now, sent>>
    IN  /\ MayBegin(s)
        /\ IF fb.status # HTTP_200_OK THEN Fail(fb.status)
           ELSE IF ~(BoardAccess(b, a, "post") \/ BoardAccess(b, a, "admin")) THEN Fail(HTTP_401_UNAUTHORIZED)
           ELSE IF Strip(subject) = EmptyStr THEN Fail(HTTP_400_BAD_REQUEST)
           ELSE IF body = EmptyStr THEN Fail(HTTP_400_BAD_REQUEST)
           ELSE IF PostOptionStatus(b, s, d) # HTTP_200_OK THEN Fail(PostOptionStatus(b, s, d))
           ELSE /\ req' = [req EXCEPT ![s] =
                            [Idle EXCEPT !.pc = "post_create", !.board = b,
                                         !.number = boards[b].next_post_number,
                                         !.subject = Strip(subject),
                                         !.ic = boards[b].ic,
                                         !.disguise = IF boards[b].disguise THEN d ELSE None]]
                /\ UNCHANGED <<collections, boards, posts, now, last, sent>>

\* The steps of op_create's transaction, the first k of them done: the
\* insert, the author's read marker, the board's last_activity, the counter.
CreateSteps(s, k) ==
    LET r == req[s]
        row == [board |-> r.board, user |-> s.user,
                character |-> IF r.ic THEN s.character ELSE None,
                disguise |-> r.disguise, number |-> r.number, reply_number |-> 0,
                subject |-> r.subject, date_created |-> now, deleted |-> FALSE,
                read |-> {}]
        p1 == Append(posts, row)
        p2 == [p1 EXCEPT ![Len(p1)].read = MarkRead(@, s.user)]
        b3 == [boards EXCEPT ![r.board].last_activity = now]
        b4 == [b3 EXCEPT ![r.board].next_post_number = AdvanceCounter(r.number)]
    IN  CASE k = 0 -> [posts |-> posts, boards |-> boards]
          [] k = 1 -> [posts |-> p1, boards |-> boards]
          [] k = 2 -> [posts |-> p2, boards |-> boards]
          [] k = 3 -> [posts |-> p2, boards |-> b3]
          [] OTHER -> [posts |-> p2, boards |-> b4]

\* The step of the transaction at which the store fails: 0 for none.
Faults == 0..4
FaultName(k) == <<"insert", "read", "last_activity", "counter">>[k]

\* A block that keeps what the steps before the failure wrote.
KeepPartial(before, partial) == partial

\* with transaction.atomic(): an exception inside the block rolls the store
\* back to what it held when the block was entered.
Atomic(before, partial) == before

\* The transaction of op_create, the notifications and the result.  A row
\* the store refuses raises IntegrityError out of the handler, a step the
\* store fails at (fault) raises its error; the transaction leaves nothing
\* behind.  An exception of system_send (for the targets in broken) leaves
\* the handler after the transaction, before the status and the result are
\* set.
PostCreateCommit(s, fault, broken) ==
    LET r == req[s]
        failed_at == IF ~PostUnique(r.board, r.number, 0) THEN 1 ELSE fault
        before == [posts |-> posts, boards |-> boards]
        rolled == Atomic(before, CreateSteps(s, failed_at - 1))
        done == CreateSteps(s, 4)
        pid == Len(posts) + 1
        d == Delivery(done.posts[pid], pid, r.ic, broken)
    IN  /\ MayCommit(s, "post_create")
        /\ IF failed_at # 0
           THEN /\ ~PostUnique(r.board, r.number, 0) \/ Len(posts) < MaxPosts
                /\ posts' = rolled.posts
                /\ boards' = rolled.boards
                /\ Finish(s, Outcome("post_create", HTTP_200_OK,
                                     IF ~PostUnique(r.board, r.number, 0)
                                     THEN "IntegrityError" ELSE "DatabaseError",
                                     r.board, None, {FaultName(failed_at)}))
                /\ UNCHANGED <<collections, now, sent>>
           ELSE /\ Len(posts) < MaxPosts
                /\ posts' = done.posts
                /\ boards' = done.boards
                /\ now' = now + 1
                /\ sent' = sent \cup d.sent
                /\ Finish(s, IF IsNone(d.stopped_at)
                             THEN Outcome("post_create", HTTP_201_CREATED, "none", pid, None, {})
                             ELSE Outcome("post_create", HTTP_200_OK, "SendError", pid, None,
                                          {Val(d.stopped_at)}))
                /\ UNCHANGED collections

\* "RE: " in front of a subject.
RePrefix == <<"R", "E", ":", " ">>

\* PostManager.op_reply up to the transaction: the lookups, the checks, the
\* clock and the reply number read from the store.
PostReplyBegin(s, board_id, post_id, body, disguise) ==
    LET fb == find_board(board_id)
        b == fb.board
        a == Actor(s)
        fp == find_post(post_id, b)
        d == IF IsNone(disguise) \/ Val(disguise) = EmptyStr THEN disguise ELSE Some(Strip(Val(disguise)))
        Fail(st, t) == /\ Finish(s, Outcome("post_reply", st, "OperationError", t, None, {}))
                       /\ UNCHANGED <<collections, boards, posts, now, sent>>
    IN  /\ MayBegin(s)
        /\ IF fb.status # HTTP_200_OK THEN Fail(fb.status, 0)
           ELSE IF ~(BoardAccess(b, a, "post") \/ BoardAccess(b, a, "admin"))
                THEN Fail(HTTP_401_UNAUTHORIZED, 0)
           ELSE IF fp.status # HTTP_200_OK THEN Fail(fp.status, 0)
           ELSE IF body = EmptyStr THEN Fail(HTTP_400_BAD_REQUEST, fp.post)
           ELSE IF PostOptionStatus(b, s, d) # HTTP_200_OK
                   THEN Fail(PostOptionStatus(b, s, d), fp.post)
                   ELSE /\ req' = [req EXCEPT ![s] =
                                    [Idle EXCEPT !.pc = "post_reply", !.board = b,
                                                 !.number = posts[fp.post].number,
                                                 !.reply_number = NextReplyNumber(b, posts[fp.post].number),
                                                 !.subject = RePrefix \o posts[fp.post].subject,
                                                 !.ic = boards[b].ic,
                                                 !.disguise = IF boards[b].disguise THEN d ELSE None,
                                                 !.when = now, !.ref = Some(post_id)]]
                        /\ UNCHANGED <<collections, boards, posts, now, last, sent>>

\* The transaction of op_reply, the notifications and the result, with the
\* targets in broken as in op_create.
PostReplyCommit(s, broken) ==
    LET r == req[s]
        row == [board |-> r.board, user |-> s.user,
                character |-> IF r.ic THEN s.character ELSE None,
                disguise |-> r.disguise, number |-> r.number, reply_number |-> r.reply_number,
                subject |-> r.subject, date_created |-> r.when, deleted |-> FALSE,
                read |-> {s.user}]
        pid == Len(posts) + 1
        d == Delivery(row, pid, r.ic, broken)
    IN  /\ MayCommit(s, "post_reply")
        /\ IF ~PostUnique(r.board, r.number, r.reply_number)
           THEN /\ Finish(s, Outcome("post_reply", HTTP_200_OK, "IntegrityError", 0, None, {}))
                /\ UNCHANGED <<collections, boards, posts, now, sent>>
           ELSE /\ Len(posts) < MaxPosts
                /\ posts' = Append(posts, row)
                /\ boards' = [boards EXCEPT ![r.board].last_activity = r.when]
                /\ now' = now + 1
                /\ sent' = sent \cup d.sent
                /\ Finish(s, IF IsNone(d.stopped_at)
                             THEN Outcome("post_reply", HTTP_201_CREATED, "none", pid, r.ref, {})
                             ELSE Outcome("post_reply", HTTP_200_OK, "SendError", pid, r.ref,
                                          {Val(d.stopped_at)}))
                /\ UNCHANGED collections

\* PostManager.op_read
PostRead(s, board_id, post_id) ==
    LET fb == find_board(board_id)
        b == fb.board
        a == Actor(s)
        fp == find_post(post_id, b)
        Fail(st) == /\ Finish(s, Outcome("post_read", st, "OperationError", 0, None, {}))
                    /\ UNCHANGED posts
    IN  /\ MayRun(s)
        /\ IF fb.status # HTTP_200_OK THEN Fail(fb.status)
           ELSE IF ~(BoardAccess(b, a, "read") \/ BoardAccess(b, a, "admin")) THEN Fail(HTTP_401_UNAUTHORIZED)
           ELSE IF fp.status # HTTP_200_OK THEN Fail(fp.status)
           ELSE /\ posts' = [posts EXCEPT ![fp.post].read = MarkRead(@, s.user)]
                /\ Finish(s, [Outcome("post_read", HTTP_200_OK, "none", fp.post, Some(post_id),
                                      IF s.user \in posts[fp.post].read THEN {"marked_before"} ELSE {})
                              EXCEPT !.actor = s.user])
        /\ UNCHANGED <<collections, boards, now, sent>>

\* A slip in the removal: the removed post gives its number up.
SoftDeleteFreesNumber(p) == [posts EXCEPT ![p].deleted = TRUE, ![p].number = 0]

\* post.deleted = True; post.save(): the row stays, flagged.
SoftDelete(p) == [posts EXCEPT ![p].deleted = TRUE]

\* The authorisation expression of op_remove, as Python groups it:
\* (not (is author)) or (has admin) raises.
RemoveDenied(is_author, has_admin) == (~is_author) \/ has_admin

\* PostManager.op_remove
PostRemove(s, board_id, post_id) ==
    LET fb == find_board(board_id)
        b == fb.board
        a == Actor(s)
        fp == find_post(post_id, b)
        by_user == posts[fp.post].user = s.user
        by_character == posts[fp.post].character = s.character
        has_post == BoardAccess(b, a, "post")
        has_admin == BoardAccess(b, a, "admin")
        facts == (IF has_post THEN {"post"} ELSE {})
                 \cup (IF has_admin THEN {"admin"} ELSE {})
                 \cup (IF by_user THEN {"author_account"} ELSE {})
                 \cup (IF ~IsNone(s.character) /\ by_character THEN {"author_persona"} ELSE {})
        Fail(st, t, f) == /\ Finish(s, Outcome("post_remove", st, "OperationError", t, None, f))
                          /\ UNCHANGED posts
    IN  /\ MayRun(s)
        /\ IF fb.status # HTTP_200_OK THEN Fail(fb.status, 0, {})
           ELSE IF ~(has_post \/ has_admin) THEN Fail(HTTP_401_UNAUTHORIZED, 0, {})
           ELSE IF fp.status # HTTP_200_OK THEN Fail(fp.status, 0, {})
           ELSE IF RemoveDenied(by_user \/ by_character, has_admin)
                THEN Fail(HTTP_401_UNAUTHORIZED, fp.post, facts)
           ELSE /\ posts' = SoftDelete(fp.post)
                /\ Finish(s, Outcome("post_remove", HTTP_200_OK, "none", fp.post, None, facts))
        /\ UNCHANGED <<collections, boards, now, sent>>

----------------------------------------------------------------------------
(* Rows as the store creates them *)

CollectionRow(key, abbreviation) ==
    [db_key |-> key, db_abbreviation |-> abbreviation, deleted |-> FALSE, locks |-> init_locks]

BoardRow(collection, key, order) ==
    [db_collection |-> collection, db_key |-> key, db_order |-> order, order_cached |-> order,
     deleted |-> FALSE, next_post_number |-> 1, last_activity |-> 0, locks |-> default_locks,
     ic |-> FALSE, disguise |-> FALSE]

----------------------------------------------------------------------------
(* Collections: CollectionDBManager *)

IsLetter(c) == c \in UpperLetters \/ c \in LowerLetters

\* _RE_ABBREV = ^[a-zA-Z]{1,10}$
RE_ABBREV(t) == Len(t) >= 1 /\ Len(t) <= 10 /\ \A i \in 1..Len(t) : IsLetter(t[i])

\* _validate_name: the name given, stripped; None (a BadRequest) when it is
\* missing or blank.
ValidateName(name) ==
    IF IsNone(name) \/ Strip(Val(name)) = EmptyStr THEN None ELSE Some(Strip(Val(name)))

\* _validate_abbreviation: "" is let through as it is; anything else must
\* be 1 to 10 letters.
ValidateAbbreviation(abbreviation) ==
    IF abbreviation = Some(EmptyStr) THEN abbreviation
    ELSE IF IsNone(abbreviation) \/ ~RE_ABBREV(Strip(Val(abbreviation))) THEN None
    ELSE Some(Strip(Val(abbreviation)))

\* db_key and db_abbreviation are unique=True: whether the store accepts
\* these values for row c (0: a new row).  The columns compare exactly.
CollectionUnique(c, key, abbreviation) ==
    ~\E o \in ColIds \ {c} : \/ collections[o].db_key = key
                             \/ collections[o].db_abbreviation = abbreviation

\* CollectionDBManager.op_create up to the insert.
CollectionCreateBegin(s, name, abbreviation) ==
    LET vn == ValidateName(name)
        va == ValidateAbbreviation(abbreviation)
        Fail(st) == /\ Finish(s, Outcome("collection_create", st, "OperationError", 0, name, {}))
                    /\ UNCHANGED <<collections, boards, posts, now, sent>>
    IN  /\ MayBegin(s)
        /\ IF ~check_override(Actor(s)) THEN Fail(HTTP_401_UNAUTHORIZED)
           ELSE IF IsNone(vn) THEN Fail(HTTP_400_BAD_REQUEST)
           ELSE IF \E c \in ColIds : IEq(collections[c].db_key, Val(vn)) THEN Fail(HTTP_400_BAD_REQUEST)
           ELSE IF IsNone(va) THEN Fail(HTTP_400_BAD_REQUEST)
           ELSE IF \E c \in ColIds : IEq(collections[c].db_abbreviation, Val(va)) THEN Fail(HTTP_400_BAD_REQUEST)
           ELSE /\ req' = [req EXCEPT ![s] = [Idle EXCEPT !.pc = "collection_create",
                                                          !.name = Val(vn), !.abbr = Val(va)]]
                /\ UNCHANGED <<collections, boards, posts, now, last, sent>>

\* The insert of op_create and its result.
CollectionCreateCommit(s) ==
    LET r == req[s]
    IN  /\ MayCommit(s, "collection_create")
        /\ IF ~CollectionUnique(0, r.name, r.abbr)
           THEN /\ Finish(s, Outcome("collection_create", HTTP_200_OK, "IntegrityError", 0, Some(r.name), {}))
                /\ UNCHANGED collections
           ELSE /\ Len(collections) < MaxCollections
                /\ collections' = Append(collections, CollectionRow(r.name, r.abbr))
                /\ Finish(s, Outcome("collection_create", HTTP_201_CREATED, "none",
                                     Len(collections) + 1, Some(r.name), {}))
        /\ UNCHANGED <<boards, posts, now, sent>>

\* CollectionDBManager.op_rename up to the update.
CollectionRenameBegin(s, collection_id, name) ==
    LET fc == find_collection(collection_id)
        vn == ValidateName(name)
        Fail(st) == /\ Finish(s, Outcome("collection_rename", st, "OperationError", fc.col, name, {}))
                    /\ UNCHANGED <<collections, boards, posts, now, sent>>
    IN  /\ MayBegin(s)
        /\ IF ~check_override(Actor(s)) THEN Fail(HTTP_401_UNAUTHORIZED)
           ELSE IF fc.status # HTTP_200_OK THEN Fail(fc.status)
           ELSE IF IsNone(vn) THEN Fail(HTTP_400_BAD_REQUEST)
           ELSE IF \E c \in ColIds \ {fc.col} : IEq(collections[c].db_key, Val(vn))
                THEN Fail(HTTP_400_BAD_REQUEST)
           ELSE /\ req' = [req EXCEPT ![s] = [Idle EXCEPT !.pc = "collection_rename",
                                                          !.col = fc.col, !.name = Val(vn)]]
                /\ UNCHANGED <<collections, boards, posts, now, last, sent>>

\* collection.key = name: the column is saved.
CollectionRenameCommit(s) ==
    LET r == req[s]
    IN  /\ MayCommit(s, "collection_rename")
        /\ IF ~CollectionUnique(r.col, r.name, collections[r.col].db_abbreviation)
           THEN /\ Finish(s, Outcome("collection_rename", HTTP_200_OK, "IntegrityError", r.col, Some(r.name), {}))
                /\ UNCHANGED collections
           ELSE /\ collections' = [collections EXCEPT ![r.col].db_key = r.name]
                /\ Finish(s, Outcome("collection_rename", HTTP_200_OK, "none", r.col, Some(r.name), {}))
        /\ UNCHANGED <<boards, posts, now, sent>>

\* CollectionDBManager.op_abbreviate up to the update.
CollectionAbbreviateBegin(s, collection_id, abbreviation) ==
    LET fc == find_collection(collection_id)
        va == ValidateAbbreviation(abbreviation)
        Fail(st) == /\ Finish(s, Outcome("collection_abbreviate", st, "OperationError", fc.col, abbreviation, {}))
                    /\ UNCHANGED <<collections, boards, posts, now, sent>>
    IN  /\ MayBegin(s)
        /\ IF ~check_override(Actor(s)) THEN Fail(HTTP_401_UNAUTHORIZED)
           ELSE IF fc.status # HTTP_200_OK THEN Fail(fc.status)
           ELSE IF IsNone(va) THEN Fail(HTTP_400_BAD_REQUEST)
           ELSE IF \E c \in ColIds \ {fc.col} : IEq(collections[c].db_abbreviation, Val(va))
                THEN Fail(HTTP_400_BAD_REQUEST)
           ELSE /\ req' = [req EXCEPT ![s] = [Idle EXCEPT !.pc = "collection_abbreviate",
                                                          !.col = fc.col, !.abbr = Val(va)]]
                /\ UNCHANGED <<collections, boards, posts, now, last, sent>>

\* collection.abbreviation = abbreviation: the column is saved.
CollectionAbbreviateCommit(s) ==
    LET r == req[s]
    IN  /\ MayCommit(s, "collection_abbreviate")
        /\ IF ~CollectionUnique(r.col, collections[r.col].db_key, r.abbr)
           THEN /\ Finish(s, Outcome("collection_abbreviate", HTTP_200_OK, "IntegrityError", r.col, Some(r.abbr), {}))
                /\ UNCHANGED collections
           ELSE /\ collections' = [collections EXCEPT ![r.col].db_abbreviation = r.abbr]
                /\ Finish(s, Outcome("collection_abbreviate", HTTP_200_OK, "none", r.col, Some(r.abbr), {}))
        /\ UNCHANGED <<boards, posts, now, sent>>

\* _CmdBcBase.locks = "cmd:perm(bbadmin) or perm(Admin)": who may run the
\* collection commands; no identity here holds bbadmin.
CmdBcLocks(a) == PermRank(a) >= 2

\* Operation.execute on the collection manager: the handler op_<operation>
\* runs with the kwargs, a key the request lacks reading as None.
CollectionExecute(operation, s, kwargs) ==
    CASE operation = "rename" ->
            CollectionRenameBegin(s, kwargs.collection_id, kwargs.name)
      [] operation = "abbreviate" ->
            CollectionAbbreviateBegin(s, kwargs.collection_id, kwargs.abbreviation)

\* CmdBcAbbreviate.func for "bcabbrev <lhs>=<rhs>" with both sides given:
\* the operation it builds and executes.
CmdBcAbbreviate(s, lhs, rhs) ==
    /\ CmdBcLocks(Actor(s))
    /\ lhs # EmptyStr /\ rhs # EmptyStr
    /\ CollectionExecute("rename", s,
                         [collection_id |-> IF Lower(lhs) = <<"n", "o", "n", "e">> THEN EmptyStr ELSE lhs,
                          abbreviation |-> Some(rhs),
                          name |-> None])

\* collection.boards.count(): every board row of the collection, deleted
\* or not.
CollectionBoardsCount(c) == Cardinality({b \in BoardIds : boards[b].db_collection = c})

\* op_delete: whether the delete may go on: the collection has no boards, or
\* validate.lower() is the collection's name in lower case.
DeleteConfirmed(c, validate) ==
    CollectionBoardsCount(c) = 0 \/ Lower(Val(validate)) = Lower(collections[c].db_key)

\* CollectionDBManager.op_delete.  validate is None when the request carries
\* "validate": None, as bcdelete without "=<name>" sends it; None.lower()
\* raises AttributeError out of the handler.
CollectionDelete(s, collection_id, validate) ==
    LET fc == find_collection(collection_id)
        facts == IF CollectionBoardsCount(fc.col) > 0 THEN {"has_boards"} ELSE {}
        Fail(st, f) == /\ Finish(s, Outcome("collection_delete", st, "OperationError", fc.col, validate, f))
                       /\ UNCHANGED collections
    IN  /\ MayRun(s)
        /\ IF ~check_override(Actor(s)) THEN Fail(HTTP_401_UNAUTHORIZED, {})
           ELSE IF fc.status # HTTP_200_OK THEN Fail(fc.status, {})
           ELSE IF CollectionBoardsCount(fc.col) > 0 /\ IsNone(validate)
                THEN /\ Finish(s, Outcome("collection_delete", HTTP_200_OK, "AttributeError", fc.col, validate, facts))
                     /\ UNCHANGED collections
           ELSE IF ~DeleteConfirmed(fc.col, validate) THEN Fail(HTTP_400_BAD_REQUEST, facts)
           ELSE /\ collections' = [collections EXCEPT ![fc.col].deleted = TRUE]
                /\ Finish(s, Outcome("collection_delete", HTTP_200_OK, "none", fc.col, validate, facts))
        /\ UNCHANGED <<boards, posts, now, sent>>

\* A lockstring as the lock handler takes it: one access type and its lock
\* function, or a text it rejects with LockException (valid = FALSE).
LockInputs == {[valid |-> TRUE, type |-> "admin", func |-> "false"],
               [valid |-> TRUE, type |-> "admin", func |-> "all"],
               [valid |-> TRUE, type |-> "read", func |-> "perm_admin"],
               [valid |-> FALSE, type |-> "read", func |-> "false"]}

\* CollectionDBManager.op_lock; lock is None when no lockstring is given.
CollectionLock(s, collection_id, lock) ==
    LET fc == find_collection(collection_id)
        Fail(st) == /\ Finish(s, Outcome("collection_lock", st, "OperationError", fc.col, None, {}))
                    /\ UNCHANGED collections
    IN  /\ MayRun(s)
        /\ IF ~check_override(Actor(s)) THEN Fail(HTTP_401_UNAUTHORIZED)
           ELSE IF fc.status # HTTP_200_OK THEN Fail(fc.status)
           ELSE IF IsNone(lock) THEN Fail(HTTP_400_BAD_REQUEST)
           ELSE IF ~Val(lock).valid THEN Fail(HTTP_400_BAD_REQUEST)
           ELSE /\ collections' = [collections EXCEPT ![fc.col].locks[Val(lock).type] = Val(lock).func]
                /\ Finish(s, Outcome("collection_lock", HTTP_200_OK, "none", fc.col, None, {}))
        /\ UNCHANGED <<boards, posts, now, sent>>

----------------------------------------------------------------------------
(* Boards: BoardDBManager *)

\* BoardDB.Meta.unique_together = (collection, key), (collection, order):
\* whether the store accepts these values for row b (0: a new row).
BoardUnique(b, collection, key, order) ==
    ~\E o \in BoardIds \ {b} :
        /\ boards[o].db_collection = collection
        /\ (boards[o].db_key = key \/ boards[o].db_order = order)

\* op_create with no order given: one more than the largest order among
\* the collection's boards, or 1.
NextOrder(c) ==
    LET os == {boards[b].db_order : b \in {x \in BoardIds : boards[x].db_collection = c}}
    IN  IF os = {} THEN 1 ELSE SeqMax(os) + 1

\* BoardDBManager.op_create up to the insert; order is None or the text given.
BoardCreateBegin(s, collection_id, name, order) ==
    LET fc == find_collection(collection_id)
        c == fc.col
        caller == Actor(s)
        po == ParseInt(Val(order))
        ord == IF IsNone(order) THEN NextOrder(c) ELSE po.val
        vn == ValidateName(name)
        Fail(st) == /\ Finish(s, Outcome("board_create", st, "OperationError", 0, order, {}))
                    /\ UNCHANGED <<collections, boards, posts, now, sent>>
    IN  /\ MayBegin(s)
        /\ IF fc.status # HTTP_200_OK THEN Fail(fc.status)
           ELSE IF ~CollectionAccess(c, caller, "admin") THEN Fail(HTTP_401_UNAUTHORIZED)
           ELSE IF ~IsNone(order) /\ ~po.ok THEN Fail(HTTP_400_BAD_REQUEST)
           ELSE IF ~IsNone(order) /\ \E b \in BoardIds : boards[b].db_collection = c /\ boards[b].db_order = ord
                THEN Fail(HTTP_400_BAD_REQUEST)
           ELSE IF IsNone(vn) THEN Fail(HTTP_400_BAD_REQUEST)
           ELSE IF \E b \in BoardIds : IEq(boards[b].db_key, Val(vn)) THEN Fail(HTTP_400_BAD_REQUEST)
           ELSE /\ req' = [req EXCEPT ![s] = [Idle EXCEPT !.pc = "board_create", !.col = c,
                                                          !.name = Val(vn), !.order = ord,
                                                          !.ref = order]]
                /\ UNCHANGED <<collections, boards, posts, now, last, sent>>

\* The insert of op_create, with the collection's default locks, and its result.
BoardCreateCommit(s) ==
    LET r == req[s]
    IN  /\ MayCommit(s, "board_create")
        /\ IF ~BoardUnique(0, r.col, r.name, r.order)
           THEN /\ Finish(s, Outcome("board_create", HTTP_200_OK, "IntegrityError", 0, r.ref, {}))
                /\ UNCHANGED boards
           ELSE /\ Len(boards) < MaxBoards
                /\ boards' = Append(boards, BoardRow(r.col, r.name, r.order))
                /\ Finish(s, Outcome("board_create", HTTP_201_CREATED, "none", Len(boards) + 1, r.ref, {}))
        /\ UNCHANGED <<collections, posts, now, sent>>

\* BoardDBManager.op_rename up to the update.
BoardRenameBegin(s, board_id, name) ==
    LET fb == find_board(board_id)
        b == fb.board
        vn == ValidateName(name)
        Fail(st) == /\ Finish(s, Outcome("board_rename", st, "OperationError", b, name, {}))
                    /\ UNCHANGED <<collections, boards, posts, now, sent>>
    IN  /\ MayBegin(s)
        /\ IF fb.status # HTTP_200_OK THEN Fail(fb.status)
           ELSE IF ~BoardAccess(b, Actor(s), "admin") THEN Fail(HTTP_401_UNAUTHORIZED)
           ELSE IF IsNone(vn) THEN Fail(HTTP_400_BAD_REQUEST)
           ELSE IF \E o \in BoardIds \ {b} : IEq(boards[o].db_key, Val(vn)) THEN Fail(HTTP_400_BAD_REQUEST)
           ELSE /\ req' = [req EXCEPT ![s] = [Idle EXCEPT !.pc = "board_rename", !.board = b,
                                                          !.name = Val(vn)]]
                /\ UNCHANGED <<collections, boards, posts, now, last, sent>>

\* board.key = name: the column is saved.
BoardRenameCommit(s) ==
    LET r == req[s]
    IN  /\ MayCommit(s, "board_rename")
        /\ IF ~BoardUnique(r.board, boards[r.board].db_collection, r.name, boards[r.board].db_order)
           THEN /\ Finish(s, Outcome("board_rename", HTTP_200_OK, "IntegrityError", r.board, Some(r.name), {}))
                /\ UNCHANGED boards
           ELSE /\ boards' = [boards EXCEPT ![r.board].db_key = r.name]
                /\ Finish(s, Outcome("board_rename", HTTP_200_OK, "none", r.board, Some(r.name), {}))
        /\ UNCHANGED <<collections, posts, now, sent>>

\* BoardDBManager.op_order.  board.db_order = order assigns the attribute of
\* the board object in memory; nothing saves it, so the stored column, which
\* the lookups and the uniqueness checks read, keeps its value.
BoardOrder(s, board_id, order) ==
    LET fb == find_board(board_id)
        b == fb.board
        po == ParseInt(Val(order))
        Fail(st) == /\ Finish(s, Outcome("board_order", st, "OperationError", b, order, {}))
                    /\ UNCHANGED boards
    IN  /\ MayRun(s)
        /\ IF fb.status # HTTP_200_OK THEN Fail(fb.status)
           ELSE IF ~BoardAccess(b, Actor(s), "admin") THEN Fail(HTTP_401_UNAUTHORIZED)
           ELSE IF IsNone(order) THEN Fail(HTTP_400_BAD_REQUEST)
           ELSE IF ~po.ok THEN Fail(HTTP_400_BAD_REQUEST)
           ELSE IF boards[b].order_cached = po.val THEN Fail(HTTP_400_BAD_REQUEST)
           ELSE IF \E o \in BoardIds : /\ boards[o].db_collection = boards[b].db_collection
                                        /\ boards[o].db_order = po.val
                THEN Fail(HTTP_400_BAD_REQUEST)
           ELSE /\ boards' = [boards EXCEPT ![b].order_cached = po.val]
                /\ Finish(s, Outcome("board_order", HTTP_200_OK, "none", b, order, {}))
        /\ UNCHANGED <<collections, posts, now, sent>>

\* BoardDBManager.op_lock; lock is None when no lockstring is given.
BoardLock(s, board_id, lock) ==
    LET fb == find_board(board_id)
        b == fb.board
        locked == IF IsNone(lock) \/ ~Val(lock).valid THEN boards
                  ELSE [boards EXCEPT ![b].locks[Val(lock).type] = Val(lock).func]
        Fail(st) == /\ Finish(s, Outcome("board_lock", st, "OperationError", b, None, {}))
                    /\ UNCHANGED boards
    IN  /\ MayRun(s)
        /\ IF fb.status # HTTP_200_OK THEN Fail(fb.status)
           ELSE IF ~BoardAccess(b, Actor(s), "admin")
                THEN /\ Finish(s, Outcome("board_lock", HTTP_401_UNAUTHORIZED, "OperationError", b, None, {}))
                     /\ boards' = DenyFirst(boards, locked)
           ELSE IF IsNone(lock) THEN Fail(HTTP_400_BAD_REQUEST)
           ELSE IF ~Val(lock).valid THEN Fail(HTTP_400_BAD_REQUEST)
           ELSE /\ boards' = locked
                /\ Finish(s, Outcome("board_lock", HTTP_200_OK, "none", b, None, {}))
        /\ UNCHANGED <<collections, posts, now, sent>>

\* board.posts.count(): every post row of the board, deleted or not.
BoardPostsCount(b) == Cardinality({p \in PostIds : posts[p].board = b})

\* BoardDBManager.op_delete: the owning collection's admin check; with posts
\* on the board the board's name must be given to confirm.
BoardDelete(s, board_id, validate) ==
    LET fb == find_board(board_id)
        b == fb.board
        facts == IF BoardPostsCount(b) > 0 THEN {"has_posts"} ELSE {}
        Fail(st, f) == /\ Finish(s, Outcome("board_delete", st, "OperationError", b, validate, f))
                       /\ UNCHANGED boards
    IN  /\ MayRun(s)
        /\ IF fb.status # HTTP_200_OK THEN Fail(fb.status, {})
           ELSE IF ~CollectionAccess(boards[b].db_collection, Actor(s), "admin")
                THEN Fail(HTTP_401_UNAUTHORIZED, {})
           ELSE IF BoardPostsCount(b) > 0 /\ IsNone(validate)
                THEN /\ Finish(s, Outcome("board_delete", HTTP_200_OK, "AttributeError", b, validate, facts))
                     /\ UNCHANGED boards
           ELSE IF BoardPostsCount(b) > 0 /\ Lower(Val(validate)) # Lower(boards[b].db_key)
                THEN Fail(HTTP_400_BAD_REQUEST, facts)
           ELSE /\ boards' = [boards EXCEPT ![b].deleted = TRUE]
                /\ Finish(s, Outcome("board_delete", HTTP_200_OK, "none", b, validate, facts))
        /\ UNCHANGED <<collections, posts, now, sent>>

----------------------------------------------------------------------------
(* Listings: op_list of the board and collection managers *)

\* BoardDB.Meta.ordering = ["-db_collection", "db_order"]; rows that tie
\* come in id order.
BoardBefore(b, o) ==
    \/ boards[b].db_collection > boards[o].db_collection
    \/ /\ boards[b].db_collection = boards[o].db_collection
       /\ \/ boards[b].db_order < boards[o].db_order
          \/ boards[b].db_order = boards[o].db_order /\ b < o

\* The boards of S as a sequence in that order.
RECURSIVE BoardsInOrder(_)
BoardsInOrder(S) ==
    IF S = {} THEN <<>>
    ELSE LET first == CHOOSE x \in S : \A y \in S \ {x} : BoardBefore(x, y)
         IN  <<first>> \o BoardsInOrder(S \ {first})

\* self.all() of the board manager.
AllBoards == BoardsInOrder(BoardIds)

\* The two visibility tests of BoardDBManager.op_list for one board.
BoardListed(b, a) ==
    /\ CollectionAccess(boards[b].db_collection, a, "read") \/ BoardAccess(b, a, "admin")
    /\ BoardAccess(b, a, "read") \/ BoardAccess(b, a, "admin")

\* One entry of the board listing.
BoardEntry(b, s) ==
    LET on_board == {p \in PostIds : posts[p].board = b}
    IN  [id |-> b,
         post_count |-> Cardinality(on_board),
         unread_count |-> Cardinality(on_board)
                            - Cardinality({p \in on_board : s.user \in posts[p].read}),
         read_perm |-> BoardAccess(b, Actor(s), "read"),
         post_perm |-> BoardAccess(b, Actor(s), "post"),
         admin_perm |-> BoardAccess(b, Actor(s), "admin")]

\* BoardDBManager.op_list: every board of self.all() that passes the two
\* tests, with its counts and the caller's capabilities.
BoardList(s) ==
    LET shown == SelectSeq(AllBoards, LAMBDA b : BoardListed(b, Actor(s)))
    IN  /\ MayRun(s)
        /\ Finish(s, Listing("board_list", HTTP_200_OK, 0, Actor(s),
                             [i \in 1..Len(shown) |-> BoardEntry(shown[i], s)], 0, 0))
        /\ UNCHANGED <<collections, boards, posts, now, sent>>

\* CollectionDBManager.op_list: the override check, then every row of
\* self.all(), in id order.
CollectionList(s) ==
    /\ MayRun(s)
    /\ IF ~check_override(Actor(s))
       THEN Finish(s, Outcome("collection_list", HTTP_401_UNAUTHORIZED, "OperationError", 0, None, {}))
       ELSE Finish(s, Listing("collection_list", HTTP_200_OK, 0, Actor(s),
                              [c \in ColIds |-> [id |-> c]], 0, 0))
    /\ UNCHANGED <<collections, boards, posts, now, sent>>

\* Post.Meta.ordering = ["board", "number", "reply_number"]
PostBefore(p, o) ==
    \/ posts[p].board < posts[o].board
    \/ /\ posts[p].board = posts[o].board
       /\ \/ posts[p].number < posts[o].number
          \/ /\ posts[p].number = posts[o].number
             /\ \/ posts[p].reply_number < posts[o].reply_number
                \/ posts[p].reply_number = posts[o].reply_number /\ p < o

\* A set of post rows as a queryset yields them.
RECURSIVE PostsInOrder(_)
PostsInOrder(S) ==
    IF S = {} THEN <<>>
    ELSE LET first == CHOOSE p \in S : \A o \in S \ {p} : PostBefore(p, o)
         IN  <<first>> \o PostsInOrder(S \ {first})

\* reversed(seq)
Reversed(seq) == [i \in 1..Len(seq) |-> seq[Len(seq) + 1 - i]]

\* seq[lo:hi] with 0 <= lo <= hi
Slice(seq, lo, hi) ==
    IF lo >= Len(seq) THEN <<>>
    ELSE SubSeq(seq, lo + 1, IF hi < Len(seq) THEN hi ELSE Len(seq))

\* operation.kwargs.get("posts_per_page", 50)
DefaultPostsPerPage == 50

\* math.ceil(float(count) / float(posts_per_page)) for posts_per_page > 0
Ceil(count, posts_per_page) == (count + posts_per_page - 1) \div posts_per_page

\* op_list's count and pages: the posts of the board that are not deleted.
PostPages(b, per_page) ==
    Ceil(Cardinality({p \in PostIds : posts[p].board = b /\ ~posts[p].deleted}), per_page)

\* op_list's window: the page cut from every post of the board in reverse
\* order, turned round again.
PostWindow(b, page, per_page) ==
    Reversed(Slice(Reversed(PostsInOrder({p \in PostIds : posts[p].board = b})),
                   per_page * (page - 1), per_page * page))

\* PostManager.op_list; posts_per_page is None when the request has none.
\* A page below 1, the -1 of a board id without a page among them, is page
\* 1; the count leaves deleted posts out, the window is cut from every post
\* of the board in reverse order and turned round again.
PostList(s, board_id, posts_per_page) ==
    LET fb == find_board(board_id)
        b == fb.board
        a == Actor(s)
        page == IF fb.page < 1 THEN 1 ELSE fb.page
        per_page == IF IsNone(posts_per_page) THEN DefaultPostsPerPage ELSE Val(posts_per_page)
        window == PostWindow(b, page, per_page)
        rows == [i \in 1..Len(window) |->
                    [id |-> window[i], read |-> s.user \in posts[window[i]].read,
                     payload |-> serialize(posts[window[i]], s.user, s.character)]]
        Fail(st) == Finish(s, Outcome("post_list", st, "OperationError", b, None, {}))
    IN  /\ MayRun(s)
        /\ IF fb.status # HTTP_200_OK THEN Fail(fb.status)
           ELSE IF ~(BoardAccess(b, a, "read") \/ BoardAccess(b, a, "admin")) THEN Fail(HTTP_401_UNAUTHORIZED)
           ELSE IF per_page = 0
                THEN Finish(s, Outcome("post_list", HTTP_200_OK, "ZeroDivisionError", b, None, {}))
           ELSE Finish(s, [Listing("post_list", HTTP_200_OK, b, s.user, rows, page, PostPages(b, per_page))
                           EXCEPT !.per_page = per_page,
                                  !.facts = IF fb.page = -1 THEN {"no_page"} ELSE {}])
        /\ UNCHANGED <<collections, boards, posts, now, sent>>

----------------------------------------------------------------------------
(* The posting specification: sessions posting, replying, reading and
   removing on a board that administrators have set up. *)

GenName == <<"G", "e", "n">>
GenAbbr == <<"G", "E", "N">>
NewsName == <<"N", "e", "w", "s">>

\* The requests the sessions make: a well-formed request, and the same
\* with one argument wrong at a time.
GoodBoardId == <<"G", "E", "N", "1">>
NoBoardId == <<"X", "9">>
Hi == <<"H", "i">>
CreateInputs ==
    {[board_id |-> GoodBoardId, subject |-> Hi, body |-> <<"x">>, disguise |-> None],
     [board_id |-> NoBoardId, subject |-> Hi, body |-> <<"x">>, disguise |-> None],
     [board_id |-> GoodBoardId, subject |-> <<" ">>, body |-> <<"x">>, disguise |-> None],
     [board_id |-> GoodBoardId, subject |-> Hi, body |-> EmptyStr, disguise |-> None]}
PostIdInputs == {post_number(p) : p \in PostIds} \cup {<<"9">>, <<"x">>}

\* Collection "Gen" (GEN) holds the new board GEN1 "News"; nothing is
\* posted yet.
InitBoard(ic, dg) ==
    /\ collections = <<CollectionRow(GenName, GenAbbr)>>
    /\ boards = <<[BoardRow(1, NewsName, 1) EXCEPT !.ic = ic, !.disguise = dg]>>
    /\ posts = <<>>
    /\ now = 1
    /\ req = [s \in Sessions |-> Idle]
    /\ last = NoOp
    /\ sent = {}

\* The posting specification: two sessions post and reply on the new board,
\* with its options as created, each request interleaving with the other
\* session's between its two steps; they remove posts between requests.
PostingSessions == {s \in Sessions : s.user \in {"amy", "bob"} /\ IsNone(s.character)}

\* The well-formed request, and the one naming no board.
PostingInputs == {i \in CreateInputs : i.subject = Hi /\ i.body # EmptyStr}

InitPosting == InitBoard(FALSE, FALSE)

NextPosting ==
    \/ \E s \in PostingSessions, i \in PostingInputs :
          PostCreateBegin(s, i.board_id, i.subject, i.body, i.disguise)
    \/ \E s \in PostingSessions : PostCreateCommit(s, 0, {})
    \/ \E s \in PostingSessions, i \in PostingInputs, p \in PostIdInputs :
          PostReplyBegin(s, i.board_id, p, i.body, i.disguise)
    \/ \E s \in PostingSessions : PostReplyCommit(s, {})
    \/ \E s \in PostingSessions, p \in PostIdInputs :
          InFlight = {} /\ PostRemove(s, GoodBoardId, p)
    \/ Return

SpecPosting == InitPosting /\ [][NextPosting]_vars

\* The moderation specification: every posting session, among them a board
\* admin and a session with an active persona, posts and removes on the
\* board, which uses character names (ic) or not; one request at a time.
ModerationSessions == {s \in Sessions : s.user \in {"adm", "amy", "bob"}}

InitModeration == \E ic \in BOOLEAN : InitBoard(ic, FALSE)

NextModeration ==
    \/ \E s \in ModerationSessions, i \in CreateInputs :
          InFlight = {} /\ PostCreateBegin(s, i.board_id, i.subject, i.body, i.disguise)
    \/ \E s \in ModerationSessions : PostCreateCommit(s, 0, {})
    \/ \E s \in ModerationSessions, p \in PostIdInputs :
          InFlight = {} /\ PostRemove(s, GoodBoardId, p)
    \/ Return

SpecModeration == InitModeration /\ [][NextModeration]_vars

----------------------------------------------------------------------------
(* The collections specification: two developers and a player create,
   rename, reabbreviate and delete collections on an empty store, and give
   them boards; each two-step request interleaves with the other sessions'. *)

OpsName == <<"O", "p", "s">>
OpsAbbr == <<"O">>

CollectionSessions == {s \in Sessions : s.user \in {"dev", "ops", "amy"}}

\* The requests: well-formed ones, among them two that differ in case only,
\* and one argument wrong at a time.
CollectionInputs ==
    {[name |-> Some(GenName), abbreviation |-> Some(GenAbbr)],
     [name |-> Some(Lower(GenName)), abbreviation |-> Some(Lower(GenAbbr))],
     [name |-> Some(OpsName), abbreviation |-> Some(EmptyStr)],
     [name |-> Some(<<" ">>), abbreviation |-> Some(GenAbbr)],
     [name |-> Some(GenName), abbreviation |-> Some(<<"G", "1">>)]}
CollectionIdInputs == {IntStr(c) : c \in ColIds} \cup {<<"9">>}
RenameInputs == {Some(Lower(GenName)), Some(OpsName), None}
AbbreviateInputs == {Some(Lower(GenAbbr)), Some(EmptyStr), Some(<<"G", "1">>)}
ValidateInputs == {None, Some(Lower(GenName)), Some(OpsName)}

InitCollections ==
    /\ collections = <<>>
    /\ boards = <<>>
    /\ posts = <<>>
    /\ now = 1
    /\ req = [s \in Sessions |-> Idle]
    /\ last = NoOp
    /\ sent = {}

NextCollections ==
    \/ \E s \in CollectionSessions, i \in CollectionInputs :
          CollectionCreateBegin(s, i.name, i.abbreviation)
    \/ \E s \in CollectionSessions : CollectionCreateCommit(s)
    \/ \E s \in CollectionSessions, c \in CollectionIdInputs, n \in RenameInputs :
          CollectionRenameBegin(s, c, n)
    \/ \E s \in CollectionSessions : CollectionRenameCommit(s)
    \/ \E s \in CollectionSessions, c \in CollectionIdInputs, a \in AbbreviateInputs :
          CollectionAbbreviateBegin(s, c, a)
    \/ \E s \in CollectionSessions : CollectionAbbreviateCommit(s)
    \/ \E s \in CollectionSessions, c \in CollectionIdInputs, v \in ValidateInputs :
          CollectionDelete(s, c, v)
    \/ \E s \in CollectionSessions, c \in CollectionIdInputs :
          InFlight = {} /\ BoardCreateBegin(s, c, Some(NewsName), None)
    \/ \E s \in CollectionSessions : BoardCreateCommit(s)
    \/ Return

SpecCollections == InitCollections /\ [][NextCollections]_vars

----------------------------------------------------------------------------
(* The boards specification: a developer and an admin create, rename,
   reorder and delete boards in two collections; each two-step request
   interleaves with the other session's. *)

BoardSessions == {s \in Sessions : s.user \in {"dev", "adm"}}

BoardCreateInputs ==
    {[name |-> Some(NewsName), order |-> None],
     [name |-> Some(Lower(NewsName)), order |-> None],
     [name |-> Some(NewsName), order |-> Some(<<"2">>)],
     [name |-> None, order |-> None]}
BoardIdInputs == {with_board_id(b) : b \in BoardIds} \cup {NoBoardId}
BoardNameInputs == {Some(Lower(NewsName)), Some(Hi)}
OrderInputs == {Some(<<"1">>), Some(<<"2">>), Some(<<"x">>)}

InitBoards ==
    /\ collections = <<CollectionRow(GenName, GenAbbr), CollectionRow(OpsName, OpsAbbr)>>
    /\ boards = <<>>
    /\ posts = <<>>
    /\ now = 1
    /\ req = [s \in Sessions |-> Idle]
    /\ last = NoOp
    /\ sent = {}

NextBoards ==
    \/ \E s \in BoardSessions, c \in {GenAbbr, OpsAbbr}, i \in BoardCreateInputs :
          BoardCreateBegin(s, c, i.name, i.order)
    \/ \E s \in BoardSessions : BoardCreateCommit(s)
    \/ \E s \in BoardSessions, b \in BoardIdInputs, n \in BoardNameInputs :
          BoardRenameBegin(s, b, n)
    \/ \E s \in BoardSessions : BoardRenameCommit(s)
    \/ \E s \in BoardSessions, b \in BoardIdInputs, o \in OrderInputs : BoardOrder(s, b, o)
    \/ \E s \in BoardSessions, b \in BoardIdInputs : BoardDelete(s, b, None)
    \/ Return

SpecBoards == InitBoards /\ [][NextBoards]_vars

----------------------------------------------------------------------------
(* The access specification: a developer, an admin and a player set the
   locks of two collections and of the boards created in them, one request
   at a time. *)

AccessSessions == {s \in Sessions : s.user \in {"dev", "adm", "amy"}}
LockstringInputs == {None} \cup {Some(x) : x \in LockInputs}

NextAccess ==
    \/ \E s \in AccessSessions, c \in {GenAbbr, OpsAbbr} :
          InFlight = {} /\ BoardCreateBegin(s, c, Some(IF c = GenAbbr THEN NewsName ELSE Hi), None)
    \/ \E s \in AccessSessions : BoardCreateCommit(s)
    \/ \E s \in AccessSessions, b \in BoardIdInputs, l \in LockstringInputs : BoardLock(s, b, l)
    \/ \E s \in AccessSessions, c \in {GenAbbr, <<"9">>}, l \in LockstringInputs :
          CollectionLock(s, c, l)
    \/ Return

SpecAccess == InitBoards /\ [][NextAccess]_vars

----------------------------------------------------------------------------
(* The faults specification: two sessions create posts on the new board,
   interleaved, and the store may fail at any step of a transaction. *)

NextFaults ==
    \/ \E s \in PostingSessions, i \in PostingInputs :
          PostCreateBegin(s, i.board_id, i.subject, i.body, i.disguise)
    \/ \E s \in PostingSessions, f \in Faults : PostCreateCommit(s, f, {})
    \/ Return

SpecFaults == InitPosting /\ [][NextFaults]_vars

----------------------------------------------------------------------------
(* The listing specification: a developer, an admin and a player set locks,
   delete and list in two collections that hold a board each, one request at
   a time. *)

InitListing ==
    /\ collections = <<CollectionRow(GenName, GenAbbr), CollectionRow(OpsName, OpsAbbr)>>
    /\ boards = <<BoardRow(1, NewsName, 1), BoardRow(2, Hi, 1)>>
    /\ posts = <<>>
    /\ now = 1
    /\ req = [s \in Sessions |-> Idle]
    /\ last = NoOp
    /\ sent = {}

NextListing ==
    \/ \E s \in AccessSessions, l \in LockstringInputs : CollectionLock(s, GenAbbr, l)
    \/ \E s \in AccessSessions, l \in LockstringInputs : BoardLock(s, GoodBoardId, l)
    \/ \E s \in AccessSessions, b \in BoardIdInputs : BoardDelete(s, b, None)
    \/ \E s \in AccessSessions, v \in {None, Some(OpsName)} : CollectionDelete(s, OpsAbbr, v)
    \/ \E s \in AccessSessions : BoardList(s)
    \/ \E s \in AccessSessions : CollectionList(s)
    \/ Return

SpecListing == InitListing /\ [][NextListing]_vars

----------------------------------------------------------------------------
(* The guards specification: a developer and a player post, read and
   remove on the first board while the developer tightens its locks, and
   the player tries the handlers that administer the other collection and
   its board; one request at a time. *)

GuardSessions == {s \in Sessions : s.user \in {"dev", "amy"}}
PlayerSessions == {s \in Sessions : s.user = "amy"}
OpsBoardId == <<"O", "1">>
GuardLocks == {Some([valid |-> TRUE, type |-> "post", func |-> "perm_admin"]),
               Some([valid |-> TRUE, type |-> "read", func |-> "perm_admin"])}
StoredPostIds == {post_number(p) : p \in PostIds}

NextGuards ==
    \/ \E s \in GuardSessions, l \in GuardLocks : BoardLock(s, GoodBoardId, l)
    \/ \E s \in PlayerSessions, l \in GuardLocks : CollectionLock(s, OpsAbbr, l)
    \/ \E s \in PlayerSessions : BoardDelete(s, OpsBoardId, None)
    \/ \E s \in PlayerSessions : CollectionDelete(s, OpsAbbr, Some(OpsName))
    \/ \E s \in GuardSessions :
          InFlight = {} /\ PostCreateBegin(s, GoodBoardId, Hi, <<"x">>, None)
    \/ \E s \in GuardSessions : PostCreateCommit(s, 0, {})
    \/ \E s \in GuardSessions, p \in StoredPostIds : PostRead(s, GoodBoardId, p)
    \/ \E s \in PlayerSessions, p \in StoredPostIds : PostRemove(s, GoodBoardId, p)
    \/ Return

SpecGuards == InitListing /\ [][NextGuards]_vars

----------------------------------------------------------------------------
(* The delivery specification: two players post and reply on the new board
   while an admin changes its locks, and the connection of a target may
   fail when it is sent a notification; one request at a time. *)

DeliverySessions == {s \in Sessions : s.user \in {"adm", "amy"}}
DeliveryLocks == {Some([valid |-> TRUE, type |-> "read", func |-> "perm_admin"])}
Broken == {{}, {"amy"}}

NextDelivery ==
    \/ \E s \in DeliverySessions, l \in DeliveryLocks : BoardLock(s, GoodBoardId, l)
    \/ \E s \in PostingSessions :
          InFlight = {} /\ PostCreateBegin(s, GoodBoardId, Hi, <<"x">>, None)
    \/ \E s \in PostingSessions, x \in Broken : PostCreateCommit(s, 0, x)
    \/ \E s \in PostingSessions, p \in StoredPostIds :
          InFlight = {} /\ PostReplyBegin(s, GoodBoardId, p, <<"x">>, None)
    \/ \E s \in PostingSessions, x \in Broken : PostReplyCommit(s, x)
    \/ Return

SpecDelivery == InitPosting /\ [][NextDelivery]_vars

----------------------------------------------------------------------------
(* The paging specification: two players post, reply and remove on the new
   board and list it, whole or by pages of one or two posts; one request at
   a time. *)

PageInputs == {GoodBoardId, GoodBoardId \o <<".", "2">>, GoodBoardId \o <<".", "x">>}
PerPageInputs == {None, Some(0), Some(1), Some(2)}

NextPaging ==
    \/ \E s \in PostingSessions :
          InFlight = {} /\ PostCreateBegin(s, GoodBoardId, Hi, <<"x">>, None)
    \/ \E s \in PostingSessions : PostCreateCommit(s, 0, {})
    \/ \E s \in PostingSessions, p \in StoredPostIds :
          InFlight = {} /\ PostReplyBegin(s, GoodBoardId, p, <<"x">>, None)
    \/ \E s \in PostingSessions : PostReplyCommit(s, {})
    \/ \E s \in PostingSessions, p \in StoredPostIds :
          InFlight = {} /\ PostRemove(s, GoodBoardId, p)
    \/ \E s \in PostingSessions, b \in PageInputs, n \in PerPageInputs :
          InFlight = {} /\ PostList(s, b, n)
    \/ Return

SpecPaging == InitPosting /\ [][NextPaging]_vars

----------------------------------------------------------------------------
(* The commands specification: a developer and an admin rename and
   reabbreviate two collections, by operations and by the bcabbrev
   command; one request at a time. *)

CommandSessions == {s \in Sessions : s.user \in {"dev", "adm"}}
CommandCollections == {GenAbbr, OpsAbbr, <<"9">>}
CommandAbbreviations == {<<"N">>, Lower(OpsAbbr), <<"G", "1">>}

NextCommands ==
    \/ \E s \in CommandSessions, c \in CommandCollections, a \in CommandAbbreviations :
          InFlight = {} /\ CmdBcAbbreviate(s, c, a)
    \/ \E s \in CommandSessions, c \in CommandCollections, a \in CommandAbbreviations :
          InFlight = {} /\ CollectionAbbreviateBegin(s, c, Some(a))
    \/ \E s \in CommandSessions : CollectionAbbreviateCommit(s)
    \/ \E s \in CommandSessions, c \in CommandCollections :
          InFlight = {} /\ CollectionRenameBegin(s, c, Some(NewsName))
    \/ \E s \in CommandSessions : CollectionRenameCommit(s)
    \/ Return

SpecCommands == InitBoards /\ [][NextCommands]_vars

----------------------------------------------------------------------------
(* The reading specification: two players post and reply on the new board
   and read posts by the ids they type, numerals with and without a reply
   part; one request at a time. *)

Numerals == {<<"0">>, <<"1">>, <<"2">>, <<"3">>, <<"0", "1">>, <<"1", "0">>}
PostIdTexts == Numerals \cup {n \o <<".">> \o r : n \in Numerals, r \in Numerals}

NextReading ==
    \/ \E s \in PostingSessions :
          InFlight = {} /\ PostCreateBegin(s, GoodBoardId, Hi, <<"x">>, None)
    \/ \E s \in PostingSessions : PostCreateCommit(s, 0, {})
    \/ \E s \in PostingSessions, p \in StoredPostIds :
          InFlight = {} /\ PostReplyBegin(s, GoodBoardId, p, <<"x">>, None)
    \/ \E s \in PostingSessions : PostReplyCommit(s, {})
    \/ \E s \in PostingSessions, i \in PostIdTexts :
          InFlight = {} /\ PostRead(s, GoodBoardId, i)
    \/ Return

SpecReading == InitPosting /\ [][NextReading]_vars

----------------------------------------------------------------------------
(* The orders specification: a developer and an admin create boards with
   and without an explicit order, numeric or not, and reorder them; one
   request at a time. *)

OrderTexts == {None, Some(<<"0">>), Some(<<"-", "1">>), Some(<<"x">>), Some(<<"2">>)}

NextOrders ==
    \/ \E s \in BoardSessions, c \in {GenAbbr, OpsAbbr}, n \in {NewsName, Hi}, o \in OrderTexts :
          InFlight = {} /\ BoardCreateBegin(s, c, Some(n), o)
    \/ \E s \in BoardSessions : BoardCreateCommit(s)
    \/ \E s \in BoardSessions, b \in BoardIdInputs, o \in OrderTexts : BoardOrder(s, b, o)
    \/ Return

SpecOrders == InitBoards /\ [][NextOrders]_vars

----------------------------------------------------------------------------
(* The unread specification: two players post, read and remove on the new
   board and list the boards; one request at a time. *)

NextUnread ==
    \/ \E s \in PostingSessions :
          InFlight = {} /\ PostCreateBegin(s, GoodBoardId, Hi, <<"x">>, None)
    \/ \E s \in PostingSessions : PostCreateCommit(s, 0, {})
    \/ \E s \in PostingSessions, p \in StoredPostIds :
          InFlight = {} /\ PostRead(s, GoodBoardId, p)
    \/ \E s \in PostingSessions, p \in StoredPostIds :
          InFlight = {} /\ PostRemove(s, GoodBoardId, p)
    \/ \E s \in PostingSessions : InFlight = {} /\ BoardList(s)
    \/ Return

SpecUnread == InitPosting /\ [][NextUnread]_vars

----------------------------------------------------------------------------
(* The disguise specification: the new board has the disguise option on,
   with or without the ic option; players, a character and an administrator
   post under a label or without one and list the board; one request at a
   time. *)

DisguiseSessions == {s \in Sessions : s.user \in {"adm", "amy", "bob"}}
DisguiseInputs == {None, Some(<<"Z">>)}

InitDisguise == \E ic \in BOOLEAN : InitBoard(ic, TRUE)

NextDisguise ==
    \/ \E s \in DisguiseSessions, d \in DisguiseInputs :
          InFlight = {} /\ PostCreateBegin(s, GoodBoardId, Hi, <<"x">>, d)
    \/ \E s \in DisguiseSessions : PostCreateCommit(s, 0, {})
    \/ \E s \in DisguiseSessions : InFlight = {} /\ PostList(s, GoodBoardId, None)
    \/ Return

SpecDisguise == InitDisguise /\ [][NextDisguise]_vars

----------------------------------------------------------------------------
(* Claims checked under SpecPosting *)

\* C1: whatever the interleaving of concurrent Post create requests on a
\* board, the store never holds two posts of the board with the same number
\* and reply_number 0.
C1_RootNumbersUnique ==
    \A p \in PostIds, q \in PostIds :
        (/\ p # q
         /\ posts[p].board = posts[q].board
         /\ posts[p].reply_number = 0
         /\ posts[q].reply_number = 0) => posts[p].number # posts[q].number

\* Two creates held the same number at once; one was stored and the store
\* refused the other.
C1_Witness ==
    /\ last.op = "post_create"
    /\ last.raised = "IntegrityError"
    /\ \E p \in PostIds : posts[p].reply_number = 0

\* C2: whatever the interleaving of concurrent Post reply requests on a
\* thread (board, number), the store never holds two posts of the thread with
\* the same reply_number.
C2_ReplyNumbersUnique ==
    \A p \in PostIds, q \in PostIds :
        (/\ p # q
         /\ posts[p].board = posts[q].board
         /\ posts[p].number = posts[q].number) => posts[p].reply_number # posts[q].reply_number

\* Two replies to one thread held the same reply number at once; one was
\* stored and the store refused the other.
C2_Witness ==
    /\ last.op = "post_reply"
    /\ last.raised = "IntegrityError"
    /\ \E p \in PostIds : posts[p].reply_number = 1

\* The posts stored on the board of p up to and including p that are roots,
\* and those that are replies of p's thread: posts are stored in id order.
RootsUpTo(p) == {q \in 1..p : posts[q].board = posts[p].board /\ posts[q].reply_number = 0}
RepliesUpTo(p) == {q \in 1..p : /\ posts[q].board = posts[p].board
                                /\ posts[q].number = posts[p].number
                                /\ posts[q].reply_number # 0}

\* C3: on a newly created board the k-th successful Post create gets number
\* k, reply_number 0 and post id "k"; within thread n the j-th successful
\* reply gets reply_number j and post id "n.j", whichever post of the thread
\* it answered.
C3_SequentialNumbering ==
    \A p \in PostIds :
        IF posts[p].reply_number = 0
        THEN LET k == Cardinality(RootsUpTo(p))
             IN  posts[p].number = k /\ post_number(p) = <<Digits[k + 1]>>
        ELSE LET j == Cardinality(RepliesUpTo(p))
                 n == posts[p].number
             IN  /\ posts[p].reply_number = j
                 /\ post_number(p) = <<Digits[n + 1], ".", Digits[j + 1]>>

\* Post "1", then "1.1", then a reply to "1.1" that became "1.2".
C3_Witness ==
    /\ last.op = "post_reply"
    /\ last.status = HTTP_201_CREATED
    /\ last.arg = Some(<<"1", ".", "1">>)
    /\ post_number(last.target) = <<"1", ".", "2">>

\* C10: on every board next_post_number is greater than the number of every
\* post of the board, deleted or not, and no step lowers it.
C10_CounterAboveAndMonotone ==
    /\ [](\A p \in PostIds : boards[posts[p].board].next_post_number > posts[p].number)
    /\ [][\A b \in BoardIds : boards'[b].next_post_number >= boards[b].next_post_number]_vars

\* The counter has moved past two posts, one of them removed since.
C10_Witness ==
    \E b \in BoardIds :
        /\ boards[b].next_post_number = 3
        /\ \E p \in PostIds : posts[p].board = b /\ posts[p].deleted

----------------------------------------------------------------------------
(* Claims checked under SpecModeration *)

\* The remove request that has just finished resolved its post, and its
\* caller was no author of the post: neither the account nor the persona.
RemoveByNonAuthor ==
    /\ last.op = "post_remove"
    /\ last.target # 0
    /\ "author_account" \notin last.facts
    /\ "author_persona" \notin last.facts

\* C4: Post remove succeeds when the caller has admin access to the board
\* and is not the post's author: the post is marked deleted.
C4_AdminMayRemove ==
    (RemoveByNonAuthor /\ "admin" \in last.facts)
        => (last.raised = "none" /\ posts[last.target].deleted)

\* C5: Post remove by a caller with post access but no admin access who is
\* neither the account nor the persona that wrote the post, a caller with no
\* persona on a post with no persona included, fails with Unauthorized and
\* the post is not deleted.
C5_NonAuthorDenied ==
    (RemoveByNonAuthor /\ "post" \in last.facts /\ "admin" \notin last.facts)
        => (/\ last.raised = "OperationError"
            /\ last.status = HTTP_401_UNAUTHORIZED
            /\ ~posts[last.target].deleted)

----------------------------------------------------------------------------
(* Claims checked under SpecAccess *)

\* Every identity that may act: the accounts and the characters.
Actors == Accounts \cup Characters

\* C6: for every actor and every board, if the admin check of the board's
\* collection succeeds for the actor, so does the board's admin check,
\* whatever the board's own admin lock says.
C6_CollectionAdminIsBoardAdmin ==
    \A b \in BoardIds, a \in Actors :
        CollectionAccess(boards[b].db_collection, a, "admin") => BoardAccess(b, a, "admin")

\* A board whose own admin lock denies everyone, in a collection whose admin
\* lock lets in an actor who does not hold the override.
C6_Witness ==
    \E b \in BoardIds, a \in Actors :
        /\ ~check_override(a)
        /\ ~LockCheck(boards[b].locks, a, "admin")
        /\ boards[b].locks.admin = "false"
        /\ CollectionAccess(boards[b].db_collection, a, "admin")

----------------------------------------------------------------------------
(* Claims checked under SpecCollections *)

\* C7: Collection delete on a collection with at least one board, with the
\* confirmation name missing or different, ignoring case, from the
\* collection's name, fails with Conflict (409) and leaves the collection not
\* soft-deleted.
C7_UnconfirmedDeleteConflicts ==
    (/\ last.op = "collection_delete"
     /\ "has_boards" \in last.facts
     /\ (IsNone(last.arg) \/ ~IEq(Val(last.arg), collections[last.target].db_key)))
        => (/\ last.raised = "OperationError"
            /\ last.status = 409
            /\ ~collections[last.target].deleted)

\* C8: after any sequence of Collection create, rename and reabbreviate
\* operations, concurrent ones included, no two collections have names equal
\* ignoring case and no two have abbreviations equal ignoring case; at most
\* one has the empty abbreviation.
C8_CollectionsUniqueIgnoringCase ==
    \A c \in ColIds, d \in ColIds :
        c # d => (/\ ~IEq(collections[c].db_key, collections[d].db_key)
                  /\ ~IEq(collections[c].db_abbreviation, collections[d].db_abbreviation))

----------------------------------------------------------------------------
(* Claims checked under SpecBoards *)

\* C9: after any sequence of Board create, rename and reorder operations,
\* concurrent ones included, no two boards anywhere have names equal ignoring
\* case, and no two boards of one collection have the same order, so a board
\* id resolves to at most one board.
C9_BoardsUnique ==
    \A b \in BoardIds, o \in BoardIds :
        b # o => (/\ ~IEq(boards[b].db_key, boards[o].db_key)
                  /\ (boards[b].db_collection = boards[o].db_collection
                        => boards[b].db_order # boards[o].db_order)
                  /\ with_board_id(b) # with_board_id(o))

----------------------------------------------------------------------------
(* Claims checked under SpecFaults *)

----------------------------------------------------------------------------
(* Claims checked under SpecListing *)

\* C12: once a board or collection is soft-deleted it never again appears in
\* a listing: Board list returns no soft-deleted board and no board of a
\* soft-deleted collection, and Collection list returns no soft-deleted
\* collection.
C12_ListingsLeaveOutDeleted ==
    /\ last.op = "board_list" =>
          \A i \in 1..Len(last.rows) :
              /\ ~boards[last.rows[i].id].deleted
              /\ ~collections[boards[last.rows[i].id].db_collection].deleted
    /\ last.op = "collection_list" =>
          \A i \in 1..Len(last.rows) : ~collections[last.rows[i].id].deleted

\* C13: Board list includes a board for an actor only if the actor has
\* collection read or collection admin on the owning collection, and board
\* read or board admin on the board; board admin through the board's own
\* admin lock does not stand in for the collection's.
C13_ListedOnlyWithCollectionAccess ==
    last.op = "board_list" =>
        \A i \in 1..Len(last.rows) :
            LET b == last.rows[i].id
                c == boards[b].db_collection
            IN  /\ CollectionAccess(c, last.actor, "read") \/ CollectionAccess(c, last.actor, "admin")
                /\ BoardAccess(b, last.actor, "read") \/ BoardAccess(b, last.actor, "admin")

----------------------------------------------------------------------------
(* Claims checked under SpecGuards *)

C17_ReadIdempotent ==
    [][(last'.op = "post_read" /\ last'.raised = "none")
       => /\ posts' = [posts EXCEPT ![last'.target].read = @ \cup {last'.actor}]
          /\ last'.actor \in posts[last'.target].read => posts' = posts
          /\ boards' = boards /\ collections' = collections]_vars

\* An account has read a post that held its marker already, and one that
\* is not the post's author has read it too.
C17_Witness ==
    /\ last.op = "post_read"
    /\ last.raised = "none"
    /\ "marked_before" \in last.facts
    /\ \E u \in posts[last.target].read : u # posts[last.target].user

----------------------------------------------------------------------------
(* Claims checked under SpecDelivery *)

\* C15: every notification a create or reply delivers goes to a target
\* that passes the board's read check or its admin check at that moment; a
\* target that fails both is not notified.
C15_NotifiedOnlyWithAccess ==
    [][\A n \in sent' \ sent :
          /\ last'.op \in {"post_create", "post_reply"}
          /\ n.post = last'.target
          /\ \/ BoardAccess(posts'[n.post].board, n.target, "read")
             \/ BoardAccess(posts'[n.post].board, n.target, "admin")]_vars

\* A post was created, one connected account was notified and another,
\* which the board's locks keep out, was not.
C15_Witness ==
    /\ last.op = "post_create"
    /\ last.status = HTTP_201_CREATED
    /\ \E n \in sent : n.post = last.target
    /\ \E t \in OnlineAccounts :
          /\ ~BoardAccess(posts[last.target].board, t, "read")
          /\ ~BoardAccess(posts[last.target].board, t, "admin")
          /\ ~\E n \in sent : n.post = last.target /\ n.target = t

\* C16: when the delivery to one target fails, the post is stored, every
\* other connected target that passes the board's check has its
\* notification, and the request ends with the status Created and no
\* exception.
C16_DeliveryFailureIsolated ==
    (last.op \in {"post_create", "post_reply"} /\ last.raised = "SendError")
    => /\ last.target \in PostIds
       /\ \A t \in OnlineAccounts \ last.facts :
             Eligible(posts[last.target].board, t)
             => \E n \in sent : n.post = last.target /\ n.target = t
       /\ last.status = HTTP_201_CREATED

----------------------------------------------------------------------------
(* Claims checked under SpecPaging *)

\* C18: a listing of a board asked for without a page reports
\* ceil(total / posts_per_page) pages, total being the number of posts of
\* the board that are not deleted, and returns the min(total,
\* posts_per_page) most recent of those posts, oldest first.
C18_DefaultPageIsMostRecent ==
    (last.op = "post_list" /\ last.raised = "none" /\ "no_page" \in last.facts)
    => LET live == {p \in PostIds : posts[p].board = last.target /\ ~posts[p].deleted}
           total == Cardinality(live)
           shown == {last.rows[i].id : i \in 1..Len(last.rows)}
       IN  /\ last.pages = Ceil(total, last.per_page)
           /\ Len(last.rows) = IF total < last.per_page THEN total ELSE last.per_page
           /\ shown \subseteq live
           /\ \A i, j \in 1..Len(last.rows) :
                 i < j => posts[last.rows[i].id].date_created < posts[last.rows[j].id].date_created
           /\ \A p \in live \ shown, q \in shown :
                 posts[p].date_created < posts[q].date_created

----------------------------------------------------------------------------
(* Claims checked under SpecCommands *)

\* C20: bcabbrev by a caller who passes the override lock, naming a
\* collection that exists and an abbreviation that is valid and not in use,
\* starts the reabbreviate operation on that collection with that
\* abbreviation; when the operation has run, the collection has the new
\* abbreviation and the name it had.
C20_BcAbbrevReabbreviates ==
    [][/\ \A s \in CommandSessions, c \in CommandCollections, a \in CommandAbbreviations :
            ( /\ CmdBcAbbreviate(s, c, a)
              /\ check_override(Actor(s))
              /\ find_collection(c).status = HTTP_200_OK
              /\ RE_ABBREV(a)
              /\ ~\E o \in ColIds : IEq(collections[o].db_abbreviation, a) )
            => /\ req'[s].pc = "collection_abbreviate"
               /\ req'[s].col = find_collection(c).col
               /\ req'[s].abbr = a
       /\ \A s \in CommandSessions :
            (req[s].pc = "collection_abbreviate" /\ req'[s].pc = "idle" /\ last'.raised = "none")
            => /\ collections'[req[s].col].db_abbreviation = req[s].abbr
               /\ collections'[req[s].col].db_key = collections[req[s].col].db_key]_vars

----------------------------------------------------------------------------
(* Claims checked under SpecReading *)

\* A numeral as str() writes a natural number: digits, no leading zero.
PlainNumeral(t) == AllDigits(t) /\ t = NatStr(DigitsVal(t, 0))

\* A text of the form N or N.R, both parts plain numerals.
PlainPostId(t) ==
    IF FirstDot(t) = 0 THEN PlainNumeral(t)
    ELSE /\ PlainNumeral(SubSeq(t, 1, FirstDot(t) - 1))
         /\ PlainNumeral(SubSeq(t, FirstDot(t) + 1, Len(t)))

----------------------------------------------------------------------------
(* Further claims checked under SpecPosting *)

\* C21: two create requests under way on the same board never hold the
\* same number: each takes its number in the step that advances the
\* counter.
C21_NoSharedCandidateNumber ==
    \A s, o \in Sessions :
        ( /\ s # o
          /\ req[s].pc = "post_create" /\ req[o].pc = "post_create"
          /\ req[s].board = req[o].board )
        => req[s].number # req[o].number

----------------------------------------------------------------------------
(* Further claims checked under SpecListing *)

\* C23: a delete by a caller who passes the override lock, of a collection
\* that resolves, soft-deletes it without a confirmation name when the
\* collection has no board that is not deleted, and needs the collection's
\* name when it has one.
C23_ConfirmationOnlyForLiveBoards ==
    (last.op = "collection_delete" /\ last.target # 0 /\ last.status # HTTP_401_UNAUTHORIZED)
    => LET c == last.target
           live == {b \in BoardIds : boards[b].db_collection = c /\ ~boards[b].deleted}
           named == ~IsNone(last.arg) /\ Lower(Val(last.arg)) = Lower(collections[c].db_key)
       IN  collections[c].deleted <=> (live = {} \/ named)

----------------------------------------------------------------------------
(* Claims checked under SpecOrders *)

\* C24: a board create given an order that is not a positive integer ends
\* with BadRequest and stores no board, and every stored order is positive.
C24_OrdersArePositive ==
    /\ \A b \in BoardIds : boards[b].db_order >= 1
    /\ ( /\ last.op = "board_create"
         /\ ~IsNone(last.arg)
         /\ ~(ParseInt(Val(last.arg)).ok /\ ParseInt(Val(last.arg)).val >= 1)
         /\ last.status \notin {HTTP_401_UNAUTHORIZED, HTTP_404_NOT_FOUND} )
      => last.status = HTTP_400_BAD_REQUEST

\* C25: after a successful reorder to k the board's stored order is k and
\* a lookup of the collection's abbreviation followed by k finds the board.
C25_ReorderStoresOrder ==
    (last.op = "board_order" /\ last.raised = "none")
    => LET b == last.target
           k == ParseInt(Val(last.arg)).val
       IN  /\ boards[b].db_order = k
           /\ find_board(collections[boards[b].db_collection].db_abbreviation \o IntStr(k)).board = b

\* A text that names a soft-deleted collection and no other.
NamesDeletedCollection(c) ==
    /\ find_collection(c).status = HTTP_404_NOT_FOUND
    /\ \E x \in ColIds : /\ collections[x].deleted
                         /\ IEq(collections[x].db_key, c) \/ IEq(collections[x].db_abbreviation, c)

\* A board id that names a soft-deleted board, or a board of a soft-deleted
\* collection, and no other.
NamesDeletedBoard(b) ==
    /\ find_board(b).status = HTTP_404_NOT_FOUND
    /\ \E x \in BoardIds : /\ with_board_id(x) = b
                           /\ boards[x].deleted \/ collections[boards[x].db_collection].deleted

\* C27: a request that names a soft-deleted collection, a soft-deleted
\* board or a board of a soft-deleted collection ends with NotFound and
\* changes no stored row.
C27_DeletedNeverResolves ==
    [][\A s \in AccessSessions :
          LET NotFoundAndUnchanged ==
                  /\ last'.status = HTTP_404_NOT_FOUND
                  /\ collections' = collections /\ boards' = boards /\ posts' = posts
          IN  /\ \A v \in {None, Some(OpsName)} :
                    (NamesDeletedCollection(OpsAbbr) /\ CollectionDelete(s, OpsAbbr, v))
                    => NotFoundAndUnchanged
              /\ \A b \in BoardIdInputs :
                    (NamesDeletedBoard(b) /\ BoardDelete(s, b, None))
                    => NotFoundAndUnchanged
              /\ \A l \in LockstringInputs :
                    (NamesDeletedBoard(GoodBoardId) /\ BoardLock(s, GoodBoardId, l))
                    => NotFoundAndUnchanged]_vars

\* C28: every entry of a board listing carries, as unread_count, the number
\* of posts of the board that are not soft-deleted and that the caller's
\* account has not read; the count is never negative.
C28_UnreadCountsLivePosts ==
    last.op = "board_list" =>
        \A i \in 1..Len(last.rows) :
            LET e == last.rows[i]
            IN  /\ e.unread_count >= 0
                /\ e.unread_count =
                       Cardinality({p \in PostIds : /\ posts[p].board = e.id
                                                    /\ ~posts[p].deleted
                                                    /\ last.actor \notin posts[p].read})

\* A viewer who is not the post's author account, not its authoring
\* character, and not an administrator of its board.
Unprivileged(row, user, character) ==
    /\ row.user # user
    /\ IsNone(character) \/ row.character # character
    /\ ~BoardAccess(row.board, user, "admin")
    /\ IsNone(character) \/ ~BoardAccess(row.board, Val(character), "admin")

\* C29: on a disguise board, what an unprivileged viewer receives for a
\* post is determined by the post's disguise label alone: the notification
\* sent to it and the listing's payload carry the label as author, and the
\* payload has no user or character field, whoever wrote the post.
C29_DisguiseHidesAuthor ==
    [][/\ \A m \in sent' \ sent :
             LET row == posts'[m.post]
                 user == IF m.target \in Characters THEN AccountOf(m.target) ELSE m.target
                 character == IF m.target \in Characters THEN Some(m.target) ELSE None
             IN  (boards[row.board].disguise /\ Unprivileged(row, user, character))
                 => m.author = row.disguise
       /\ \A s \in DisguiseSessions :
             PostList(s, GoodBoardId, None) =>
                \A i \in 1..Len(last'.rows) :
                    LET row == posts[last'.rows[i].id]
                    IN  (boards[row.board].disguise /\ Unprivileged(row, s.user, s.character))
                        => last'.rows[i].payload =
                              [fields |-> {}, user_name |-> None, character_name |-> None,
                               author |-> row.disguise]]_vars

\* Two posts under the same label by different accounts have been listed
\* for a third player, who was also notified of both.
C29_Witness ==
    /\ last.op = "post_list" /\ last.actor = "amy"
    /\ \E i, j \in 1..Len(last.rows) :
          /\ posts[last.rows[i].id].user = "bob"
          /\ posts[last.rows[j].id].user = "adm"
          /\ posts[last.rows[i].id].disguise = posts[last.rows[j].id].disguise
          /\ last.rows[i].payload = last.rows[j].payload
          /\ last.rows[i].payload.fields = {}
          /\ \E m, n \in sent : /\ m.target = "amy" /\ m.post = last.rows[i].id
                                 /\ n.target = "amy" /\ n.post = last.rows[j].id
                                 /\ m.author = n.author

\* C30: on a board with the ic option on and the disguise option off, the
\* author rendered in every notification of a post is the name of the
\* character that posted it.
C30_IcBoardShowsCharacter ==
    \A m \in sent :
        LET row == posts[m.post]
        IN  (boards[row.board].ic /\ ~boards[row.board].disguise /\ ~IsNone(row.character))
            => m.author = Some(KeyOf(Val(row.character)))

----------------------------------------------------------------------------
(* Further claims checked under SpecPaging *)

\* C26: a listing returns no deleted post, and for every board and page
\* size the pages 1..pages hold every post of the board that is not
\* deleted exactly once.
C26_PagesPartitionLivePosts ==
    /\ (last.op = "post_list" /\ last.raised = "none")
       => \A i \in 1..Len(last.rows) : ~posts[last.rows[i].id].deleted
    /\ \A b \in BoardIds, n \in {1, 2} :
          \A p \in {q \in PostIds : posts[q].board = b /\ ~posts[q].deleted} :
             Cardinality({<<k, i>> \in (1..PostPages(b, n)) \X (1..n) :
                            i <= Len(PostWindow(b, k, n)) /\ PostWindow(b, k, n)[i] = p}) = 1

============================================================================
